---------------------------- MODULE Spec2Model ----------------------------
(***************************************************************************)
(* A model of the mesh-field and field-statistics engine of Triumvirate    *)
(* (src/triumvirate/src/modules/field.cpp): MeshField's grid geometry,     *)
(* mesh assignment kernels, two-catalogue field constructions and Fourier  *)
(* transforms, and FieldStats' compatibility check and binned statistics.  *)
(*                                                                         *)
(* Numbers.  A double is modelled by an exact real of the field            *)
(* Q(sqrt 2, sqrt 3): the tuple <<a, b, c, d, q>> stands for               *)
(* (a + b*sqrt2 + c*sqrt3 + d*sqrt6) / q, kept in lowest terms with q > 0. *)
(* That field holds cos and sin of every multiple of pi/12, so the         *)
(* discrete Fourier transform of an axis of length 1, 2, 3, 4, 6 or 12 and *)
(* the interlacing phase are exact.  A complex sample (fftw_complex) is    *)
(* the pair <<re, im>>, as in the code's [0] and [1] components.           *)
(***************************************************************************)
EXTENDS Integers, Sequences, FiniteSets, TLC

VARIABLES
  currTask,   \* trvs::currTask, the process-wide current-task index
  mesh,       \* the MeshField operated on (field_a of a statistics call)
  mesh_b,     \* the second MeshField of a statistics call (field_b)
  stats,      \* the FieldStats object
  call,       \* the most recent operation and its arguments
  outcome,    \* how it ended: "none", "returned", or the exception raised
  ret,        \* the value it returned (NoValue when it returned none)
  trace,      \* the names of the operations performed so far
  saved,      \* what the run began with: the primary buffer of the
              \* mesh, or the value of the memory counter
  gbytesMem,  \* trvs::gbytesMem, the process-wide memory counter, in bytes
  fields,     \* the live MeshField objects of a run that creates and
              \* destroys them
  catalogue   \* the ParticleCatalogue operated on

vars ==
  <<currTask, mesh, mesh_b, stats, call, outcome, ret, trace, saved,
    gbytesMem, fields, catalogue>>

NoValue == <<"none">>

(***************************************************************************)
(* Exact arithmetic                                                        *)
(***************************************************************************)

Abs(x) == IF x < 0 THEN -x ELSE x

Min(x, y) == IF x < y THEN x ELSE y

Max(x, y) == IF x < y THEN y ELSE x

RECURSIVE GcdNat(_, _)
GcdNat(x, y) == IF y = 0 THEN x ELSE GcdNat(y, x % y)

Gcd(x, y) == GcdNat(Abs(x), Abs(y))

\* int(x) of C++ for the rational x = num / den (den > 0): truncation
\* towards zero.
TruncDiv(num, den) ==
  IF num >= 0 THEN num \div den ELSE -((-num) \div den)

\* The element of a one-element set; Only({e(v) : v \in {x}}) evaluates x
\* once and names it v in e.
Only(S) == CHOOSE x \in S : TRUE

RNorm(x) ==
  LET g == Gcd(Gcd(Gcd(x[1], x[2]), Gcd(x[3], x[4])), x[5])
      s == IF x[5] < 0 THEN -g ELSE g
  IN  <<x[1] \div s, x[2] \div s, x[3] \div s, x[4] \div s, x[5] \div s>>

RZero == <<0, 0, 0, 0, 1>>

RInt(k) == <<k, 0, 0, 0, 1>>

RRat(p, q) == RNorm(<<p, 0, 0, 0, q>>)

RAdd(x, y) ==
  IF x[5] = y[5]
  THEN RNorm(<<x[1] + y[1], x[2] + y[2], x[3] + y[3], x[4] + y[4], x[5]>>)
  ELSE LET g == Gcd(x[5], y[5])
           fx == y[5] \div g
           fy == x[5] \div g
       IN  RNorm(<<x[1] * fx + y[1] * fy, x[2] * fx + y[2] * fy,
                   x[3] * fx + y[3] * fy, x[4] * fx + y[4] * fy,
                   x[5] * fx>>)

RNeg(x) == <<-x[1], -x[2], -x[3], -x[4], x[5]>>

RSub(x, y) == RAdd(x, RNeg(y))

RMul(x, y) ==
  RNorm(<<x[1]*y[1] + 2*x[2]*y[2] + 3*x[3]*y[3] + 6*x[4]*y[4],
          x[1]*y[2] + x[2]*y[1] + 3*x[3]*y[4] + 3*x[4]*y[3],
          x[1]*y[3] + x[3]*y[1] + 2*x[2]*y[4] + 2*x[4]*y[2],
          x[1]*y[4] + x[4]*y[1] + x[2]*y[3] + x[3]*y[2],
          x[5] * y[5]>>)

\* x * p / q for integers p and q # 0.
RScale(x, p, q) ==
  RNorm(<<x[1] * p, x[2] * p, x[3] * p, x[4] * p, x[5] * q>>)

CZero == <<RZero, RZero>>

CInt(re, im) == <<RInt(re), RInt(im)>>

CAdd(u, v) == <<RAdd(u[1], v[1]), RAdd(u[2], v[2])>>

CSub(u, v) == <<RSub(u[1], v[1]), RSub(u[2], v[2])>>

CScale(u, p, q) == <<RScale(u[1], p, q), RScale(u[2], p, q)>>

CMulReal(u, x) == <<RMul(u[1], x), RMul(u[2], x)>>

CMul(u, v) ==
  <<RSub(RMul(u[1], v[1]), RMul(u[2], v[2])),
    RAdd(RMul(u[1], v[2]), RMul(u[2], v[1]))>>

CConj(u) == <<u[1], RNeg(u[2])>>

\* std::cos(t * pi / 12) for an integer t.
CosTwelfth(t) ==
  LET r == t % 24
      f == IF r > 12 THEN 24 - r ELSE r                \* cos(2pi - x) = cos x
      h == IF f > 6 THEN 12 - f ELSE f                 \* cos(pi - x) = -cos x
      c == CASE h = 0 -> <<1, 0, 0, 0, 1>>
             [] h = 1 -> <<0, 1, 0, 1, 4>>
             [] h = 2 -> <<0, 0, 1, 0, 2>>
             [] h = 3 -> <<0, 1, 0, 0, 2>>
             [] h = 4 -> <<1, 0, 0, 0, 2>>
             [] h = 5 -> <<0, -1, 0, 1, 4>>
             [] h = 6 -> RZero
  IN  IF f > 6 THEN RNeg(c) ELSE c

\* std::sin(t * pi / 12) for an integer t.
SinTwelfth(t) == CosTwelfth(t + 18)

\* The samples of a buffer of nmesh cells, all zero.
ZeroBuffer(nmesh) == [gid \in 0..(nmesh - 1) |-> CZero]

(***************************************************************************)
(* Grid geometry                                                           *)
(***************************************************************************)

\* trv::ParameterSet, the members field.cpp reads.  Axes are 1..3 here for
\* the code's 0..2.
ParameterSet(boxsize, ngrid, volume, assignment, interlace) ==
  [boxsize |-> boxsize, ngrid |-> ngrid,
   nmesh |-> ngrid[1] * ngrid[2] * ngrid[3], volume |-> volume,
   assignment |-> assignment, interlace |-> interlace,
   ell1 |-> 0, ell2 |-> 0]

\* get_grid_index with the first axis' resolution as the stride of i.
get_grid_index_stride_nx(params, i, j, k) ==
  (i * params.ngrid[1] + j) * params.ngrid[3] + k

get_grid_index(params, i, j, k) ==
  (i * params.ngrid[2] + j) * params.ngrid[3] + k

\* The signed index (idx < n/2) ? idx : idx - n of one axis, n/2 being the
\* integer division of C++.
SignedIndex(idx, n) == IF idx < n \div 2 THEN idx ELSE idx - n

\* The position vector of cell (i, j, k) in units of the cell sizes dr.
get_grid_pos_vector(params, i, j, k) ==
  <<SignedIndex(i, params.ngrid[1]), SignedIndex(j, params.ngrid[2]),
    SignedIndex(k, params.ngrid[3])>>

\* The wavevector of cell (i, j, k) in units of the fundamental
\* wavenumbers dk.
get_grid_wavevector(params, i, j, k) ==
  <<SignedIndex(i, params.ngrid[1]), SignedIndex(j, params.ngrid[2]),
    SignedIndex(k, params.ngrid[3])>>

(***************************************************************************)
(* MeshField: life cycle                                                   *)
(***************************************************************************)

\* A buffer that is not allocated (nullptr).
NullBuffer == <<>>

\* initialise_density_field without the loop over the shadow buffer.
initialise_density_field_primary_only(m) ==
  [m EXCEPT !.field = ZeroBuffer(m.params.nmesh)]

\* MeshField::initialise_density_field: both buffers zero-filled.
initialise_density_field(m) ==
  [m EXCEPT !.field = ZeroBuffer(m.params.nmesh),
            !.field_s = IF m.params.interlace = "true"
                        THEN ZeroBuffer(m.params.nmesh) ELSE @]

\* MeshField::MeshField(params).  vol_cell is vol / nmesh and is kept as
\* that quotient wherever the code uses it.
MeshField(params) ==
  initialise_density_field(
    [params |-> params, field |-> NullBuffer, field_s |-> NullBuffer,
     vol |-> params.volume])

\* trvs::size_in_gb<fftw_complex>(num), in bytes: a sample is two doubles.
size_in_gb(num) == 16 * num

\* What MeshField::MeshField adds to the memory counter: the size of one
\* buffer, and that of the shadow buffer when interlacing.
AllocatedBytes(params) ==
  size_in_gb(params.nmesh)
    + IF params.interlace = "true" THEN size_in_gb(params.nmesh) ELSE 0

\* finalise_density_field subtracting the sizes without a test of the
\* pointers.
finalise_density_field_untested(m, counter) ==
  [mesh |-> [m EXCEPT !.field = NullBuffer, !.field_s = NullBuffer],
   gbytesMem |-> counter - size_in_gb(m.params.nmesh)
                         - size_in_gb(m.params.nmesh)]

\* MeshField::finalise_density_field: each buffer that is not null is
\* freed, its pointer set to null and its size subtracted from the
\* counter.
finalise_density_field(m, counter) ==
  [mesh |-> [m EXCEPT !.field = NullBuffer, !.field_s = NullBuffer],
   gbytesMem |-> counter
                   - (IF m.field # NullBuffer
                      THEN size_in_gb(m.params.nmesh) ELSE 0)
                   - (IF m.field_s # NullBuffer
                      THEN size_in_gb(m.params.nmesh) ELSE 0)]

\* The sizes of the buffers a MeshField holds.
LiveBytes(m) ==
  (IF m.field # NullBuffer THEN size_in_gb(m.params.nmesh) ELSE 0)
    + (IF m.field_s # NullBuffer THEN size_in_gb(m.params.nmesh) ELSE 0)

(***************************************************************************)
(* MeshField: mesh assignment                                              *)
(*                                                                         *)
(* A particle position is held, per axis, as the integer q with            *)
(* pos = q * dr / PosDen, so that the grid coordinate                      *)
(* loc_grid = pos / boxsize * ngrid of the code is the rational q/PosDen.  *)
(***************************************************************************)

SupportedKernels == {"ngp", "cic", "tsc", "pcs"}

\* A sampling window is a rational <<numerator, denominator>>.
QNorm(x) ==
  LET g == Gcd(x[1], x[2])
  IN  IF g = 0 THEN <<0, 1>> ELSE <<x[1] \div g, x[2] \div g>>

QMul(x, y) == QNorm(<<x[1] * y[1], x[2] * y[2]>>)

\* The cells one particle covers on one axis and their sampling windows,
\* for the grid coordinate loc_grid = num / den: the sequence of
\* [c |-> ijk[.][iaxis], w |-> win[.][iaxis]].  s = sn / den is the
\* particle-to-grid distance.
AxisCellsNgp(num, den) ==
  <<[c |-> TruncDiv(2 * num + den, 2 * den), w |-> <<1, 1>>]>>

AxisCellsCic(num, den) ==
  LET i0 == TruncDiv(num, den)
      sn == num - i0 * den
  IN  <<[c |-> i0,     w |-> QNorm(<<den - sn, den>>)],
        [c |-> i0 + 1, w |-> QNorm(<<sn, den>>)]>>

AxisCellsTsc(num, den) ==
  LET c0 == TruncDiv(2 * num + den, 2 * den)
      sn == num - c0 * den
  IN  <<[c |-> c0 - 1,
         w |-> QNorm(<<(den - 2 * sn) * (den - 2 * sn), 8 * den * den>>)],
        [c |-> c0,
         w |-> QNorm(<<3 * den * den - 4 * sn * sn, 4 * den * den>>)],
        [c |-> c0 + 1,
         w |-> QNorm(<<(den + 2 * sn) * (den + 2 * sn), 8 * den * den>>)]>>

AxisCellsPcs(num, den) ==
  LET i0 == TruncDiv(num, den)
      sn == num - i0 * den
      tn == den - sn                                   \* 1 - s = tn / den
      d3 == 6 * den * den * den
  IN  <<[c |-> i0 - 1, w |-> QNorm(<<tn * tn * tn, d3>>)],
        [c |-> i0,
         w |-> QNorm(<<4 * den * den * den - 6 * sn * sn * den
                         + 3 * sn * sn * sn, d3>>)],
        [c |-> i0 + 1,
         w |-> QNorm(<<4 * den * den * den - 6 * tn * tn * den
                         + 3 * tn * tn * tn, d3>>)],
        [c |-> i0 + 2, w |-> QNorm(<<sn * sn * sn, d3>>)]>>

AxisCells(kernel, num, den) ==
  CASE kernel = "ngp" -> AxisCellsNgp(num, den)
    [] kernel = "cic" -> AxisCellsCic(num, den)
    [] kernel = "tsc" -> AxisCellsTsc(num, den)
    [] kernel = "pcs" -> AxisCellsPcs(num, den)

\* Positions are resolved to 1/PosDen of a cell.
PosDen == 2

\* loc_grid of one axis, as <<numerator, denominator>>: q / PosDen in the
\* primary pass; in the shadow pass half a cell further, and brought back
\* by ngrid when that exceeds ngrid.
LocGrid(q, n, shadow) ==
  IF ~shadow THEN <<q, PosDen>>
  ELSE IF 2 * q + PosDen > n * 2 * PosDen
       THEN <<2 * q + PosDen - n * 2 * PosDen, 2 * PosDen>>
       ELSE <<2 * q + PosDen, 2 * PosDen>>

\* What one particle adds in one pass: for every (iloc, jloc, kloc), in
\* the order of the code's loops, the cell indices, the flattened index
\* and the value inv_vol_cell * weight * win * win * win.
ParticleContribs(params, vol, pos, weight, shadow) ==
  LET ax(a) == LET loc == LocGrid(pos[a], params.ngrid[a], shadow)
               IN  AxisCells(params.assignment, loc[1], loc[2])
  IN  Only({
        [t \in 1..(Len(cx) * Len(cx) * Len(cx)) |->
          LET order == Len(cx)
              iloc == (t - 1) \div (order * order) + 1
              jloc == (((t - 1) \div order) % order) + 1
              kloc == ((t - 1) % order) + 1
              f == QMul(QMul(QMul(cx[iloc].w, cy[jloc].w), cz[kloc].w),
                        <<params.nmesh, vol>>)
          IN  [ijk |-> <<cx[iloc].c, cy[jloc].c, cz[kloc].c>>,
               idx |-> get_grid_index(params, cx[iloc].c, cy[jloc].c,
                                      cz[kloc].c),
               val |-> CScale(weight, f[1], f[2])]]
        : cx \in {ax(1)}, cy \in {ax(2)}, cz \in {ax(3)}})

RECURSIVE PassContribs(_, _, _, _, _, _)
PassContribs(params, vol, particles, weights, shadow, pid) ==
  IF pid > Len(particles) THEN <<>>
  ELSE ParticleContribs(params, vol, particles[pid].pos, weights[pid], shadow)
       \o PassContribs(params, vol, particles, weights, shadow, pid + 1)

\* The guard of every kernel's accumulation: 0 <= idx_grid < nmesh.
InMesh(params, c) == 0 <= c.idx /\ c.idx < params.nmesh

\* The sum of the values the contributions add to cell gid.
SumAt(contribs, gid) ==
  LET S[t \in 0..Len(contribs)] ==
        IF t = 0 THEN CZero
        ELSE IF contribs[t].idx = gid THEN CAdd(S[t - 1], contribs[t].val)
        ELSE S[t - 1]
  IN  S[Len(contribs)]

\* buffer[idx_grid] += val for every contribution that passes the guard.
AddContribs(params, buffer, contribs) ==
  Only({[gid \in DOMAIN b |-> CAdd(b[gid], SumAt(kept, gid))]
        : b \in {buffer},
          kept \in {SelectSeq(contribs, LAMBDA c : InMesh(params, c))}})

\* assign_weighted_field_to_mesh_{ngp,cic,tsc,pcs}: reset, primary pass,
\* and the shadow pass when interlacing.
assign_weighted_field_to_mesh_kernel(m, particles, weights) ==
  LET z == initialise_density_field(m)
  IN  [z EXCEPT
        !.field = AddContribs(m.params, @,
                    PassContribs(m.params, m.vol, particles, weights,
                                 FALSE, 1)),
        !.field_s = IF m.params.interlace = "true"
                    THEN AddContribs(m.params, @,
                           PassContribs(m.params, m.vol, particles, weights,
                                        TRUE, 1))
                    ELSE @]

\* MeshField::assign_weighted_field_to_mesh: the mesh afterwards and how
\* the call ended.  The extent warning changes nothing.
assign_weighted_field_to_mesh(m, particles, weights, task) ==
  IF m.params.assignment \in SupportedKernels
  THEN [mesh |-> assign_weighted_field_to_mesh_kernel(m, particles, weights),
        outcome |-> "returned"]
  ELSE IF task = 0
       THEN [mesh |-> m, outcome |-> "InvalidParameter"]
       ELSE [mesh |-> m, outcome |-> "returned"]

\* buffer[gid] + (p / q) * other[gid] for every cell.
CombineBuffers(buffer, other, p, q) ==
  Only({[gid \in DOMAIN b |-> CAdd(b[gid], CScale(o[gid], p, q))]
        : b \in {buffer}, o \in {other}})

\* weight_kern of compute_ylm_wgtd_field: ylm * w per particle, ylm[pid]
\* standing for calc_reduced_spherical_harmonic(ell, m, los[pid]).
YlmWeights(particles, ylm) ==
  [pid \in 1..Len(particles) |-> CScale(ylm[pid], particles[pid].w, 1)]

\* weight_kern of compute_ylm_wgtd_quad_field: conj(ylm) * w^2.
YlmQuadWeights(particles, ylm) ==
  [pid \in 1..Len(particles) |->
    CScale(CConj(ylm[pid]), particles[pid].w * particles[pid].w, 1)]

\* compute_ylm_wgtd_field without the subtraction in the shadow buffer.
compute_ylm_wgtd_field_primary_only(m, pdata, prand, ylm_data, ylm_rand, alpha, task) ==
  Only({
    IF fst.outcome # "returned" THEN fst
    ELSE IF snd.outcome # "returned"
    THEN [mesh |-> fst.mesh, outcome |-> snd.outcome]
    ELSE [mesh |->
            [fst.mesh EXCEPT
              !.field = CombineBuffers(@, snd.mesh.field,
                                       -alpha[1], alpha[2])],
          outcome |-> "returned"]
    : fst \in {assign_weighted_field_to_mesh(
                 m, pdata, YlmWeights(pdata, ylm_data), task)},
      snd \in {assign_weighted_field_to_mesh(
                 MeshField(m.params), prand, YlmWeights(prand, ylm_rand),
                 task)}})

\* The two-catalogue MeshField::compute_ylm_wgtd_field, alpha being the
\* rational alpha[1] / alpha[2]: the data catalogue is assigned to this
\* mesh, the random catalogue to the temporary field_rand, and
\* alpha * field_rand is subtracted, in the shadow buffer too.  An
\* exception of either assignment ends the call.
compute_ylm_wgtd_field(m, pdata, prand, ylm_data, ylm_rand, alpha, task) ==
  Only({
    IF fst.outcome # "returned" THEN fst
    ELSE IF snd.outcome # "returned"
    THEN [mesh |-> fst.mesh, outcome |-> snd.outcome]
    ELSE [mesh |->
            [fst.mesh EXCEPT
              !.field = CombineBuffers(@, snd.mesh.field,
                                       -alpha[1], alpha[2]),
              !.field_s = IF m.params.interlace = "true"
                          THEN CombineBuffers(@, snd.mesh.field_s,
                                              -alpha[1], alpha[2])
                          ELSE @],
          outcome |-> "returned"]
    : fst \in {assign_weighted_field_to_mesh(
                 m, pdata, YlmWeights(pdata, ylm_data), task)},
      snd \in {assign_weighted_field_to_mesh(
                 MeshField(m.params), prand, YlmWeights(prand, ylm_rand),
                 task)}})

\* The two-catalogue MeshField::compute_ylm_wgtd_quad_field:
\* alpha^2 * field_rand is added.
compute_ylm_wgtd_quad_field(m, pdata, prand, ylm_data, ylm_rand, alpha, task) ==
  Only({
    IF fst.outcome # "returned" THEN fst
    ELSE IF snd.outcome # "returned"
    THEN [mesh |-> fst.mesh, outcome |-> snd.outcome]
    ELSE [mesh |->
            [fst.mesh EXCEPT
              !.field = CombineBuffers(@, snd.mesh.field,
                                       alpha[1] * alpha[1],
                                       alpha[2] * alpha[2]),
              !.field_s = IF m.params.interlace = "true"
                          THEN CombineBuffers(@, snd.mesh.field_s,
                                              alpha[1] * alpha[1],
                                              alpha[2] * alpha[2])
                          ELSE @],
          outcome |-> "returned"]
    : fst \in {assign_weighted_field_to_mesh(
                 m, pdata, YlmQuadWeights(pdata, ylm_data), task)},
      snd \in {assign_weighted_field_to_mesh(
                 MeshField(m.params), prand,
                 YlmQuadWeights(prand, ylm_rand), task)}})

(***************************************************************************)
(* MeshField: transforms                                                   *)
(***************************************************************************)

\* The cell indices (i, j, k) of the flattened index gid.
CellOf(params, gid) ==
  <<gid \div (params.ngrid[2] * params.ngrid[3]),
    (gid \div params.ngrid[3]) % params.ngrid[2],
    gid % params.ngrid[3]>>

\* exp(i * t * pi / 12).
PhaseTwelfth(t) == <<CosTwelfth(t), SinTwelfth(t)>>

\* The unnormalised transform fftw_plan_dft_3d computes over the grid:
\* out[a, b, c] = sum over (i, j, k) of
\*   in[i, j, k] * exp(sign * 2 pi i * (a i / nx + b j / ny + c k / nz)),
\* sign being -1 for FFTW_FORWARD and +1 for FFTW_BACKWARD.  The axis
\* resolutions divide 24, so every angle is a multiple of pi / 12.
fftw_execute(params, buffer, sign) ==
  Only({
    [out \in DOMAIN b |->
      LET o == CellOf(params, out)
          angle(gid) ==
            LET c == CellOf(params, gid)
            IN  sign * ((24 \div params.ngrid[1]) * o[1] * c[1]
                        + (24 \div params.ngrid[2]) * o[2] * c[2]
                        + (24 \div params.ngrid[3]) * o[3] * c[3])
          S[n \in 0..params.nmesh] ==
            IF n = 0 THEN CZero
            ELSE CAdd(S[n - 1], CMul(b[n - 1], PhaseTwelfth(angle(n - 1))))
      IN  S[params.nmesh]]
    : b \in {buffer}})

\* Every sample of the buffer times p / q.
ScaleBuffer(buffer, p, q) ==
  Only({[gid \in DOMAIN b |-> CScale(b[gid], p, q)] : b \in {buffer}})

\* The interlacing phase with the index fraction wrapped to (-1/2, 1/2].
InterlacePhase_wrapped_above(params, gid) ==
  LET c == CellOf(params, gid)
      m(a) == IF 2 * c[a] <= params.ngrid[a]
              THEN (12 \div params.ngrid[a]) * c[a]
              ELSE (12 \div params.ngrid[a]) * c[a] - 12
  IN  m(1) + m(2) + m(3)

\* arg / (pi / 12) of the interlacing phase of cell gid: the sum over the
\* axes of m = i / n when i < n/2 and i / n - 1 otherwise.
InterlacePhase(params, gid) ==
  LET c == CellOf(params, gid)
      m(a) == IF c[a] < params.ngrid[a] \div 2
              THEN (12 \div params.ngrid[a]) * c[a]
              ELSE (12 \div params.ngrid[a]) * c[a] - 12
  IN  m(1) + m(2) + m(3)

\* MeshField::fourier_transform: the primary buffer is scaled by vol_cell
\* and transformed; with interlacing the shadow buffer is too, and every
\* primary sample becomes (field + exp(i arg) * field_s) / 2.
fourier_transform(m) ==
  Only({
    IF m.params.interlace = "true"
    THEN Only({
           [m EXCEPT
             !.field = [gid \in DOMAIN f |->
                         CScale(CAdd(f[gid],
                                     CMul(PhaseTwelfth(
                                            InterlacePhase(m.params, gid)),
                                          fs[gid])),
                                1, 2)],
             !.field_s = fs]
           : fs \in {fftw_execute(
                       m.params,
                       ScaleBuffer(m.field_s, m.vol, m.params.nmesh), -1)}})
    ELSE [m EXCEPT !.field = f]
    : f \in {fftw_execute(m.params,
                          ScaleBuffer(m.field, m.vol, m.params.nmesh), -1)}})

\* inv_fourier_transform without the division by vol.
inv_fourier_transform_unnormalised(m) ==
  [m EXCEPT !.field = fftw_execute(m.params, m.field, 1)]

\* MeshField::inv_fourier_transform: the primary buffer is divided by vol
\* and transformed backwards.
inv_fourier_transform(m) ==
  [m EXCEPT !.field = fftw_execute(m.params, ScaleBuffer(m.field, 1, m.vol), 1)]

(***************************************************************************)
(* FieldStats                                                              *)
(*                                                                         *)
(* A binned statistic is kept as the sum the code forms, not as a number:  *)
(* [terms, div, mul] stands for mul[1] / mul[2] * (sum of terms) / div,    *)
(* the terms in the order the code adds them.  The window responses, the   *)
(* spherical harmonics and Bessel functions and the magnitudes of vectors  *)
(* appear in the terms by their arguments.                                 *)
(*                                                                         *)
(* Box sizes are 1 or 2.  Wavenumbers and bin edges in Fourier space are   *)
(* counted in dk_sample, separations and bin edges in configuration space  *)
(* in dr_sample; bin edges are given as twice their value in those units.  *)
(***************************************************************************)

\* The zero a statistics array is filled with.
SZero == [terms |-> <<>>, div |-> 1, mul |-> <<1, 1>>]

\* FieldStats::FieldStats(params): seven empty arrays.
FieldStats(params) ==
  [params |-> params, vol |-> params.volume,
   nmodes |-> <<>>, npairs |-> <<>>, k |-> <<>>, r |-> <<>>, sn |-> <<>>,
   pk |-> <<>>, xi |-> <<>>]

\* std::vector::resize: the first num_bins elements kept, new elements
\* value-initialised.
Resized(array, num_bins, zero) ==
  [i \in 1..num_bins |-> IF i <= Len(array) THEN array[i] ELSE zero]

\* FieldStats::resize_stats.
resize_stats(st, num_bins) ==
  [st EXCEPT !.nmodes = Resized(@, num_bins, 0),
             !.npairs = Resized(@, num_bins, 0),
             !.k = Resized(@, num_bins, SZero),
             !.r = Resized(@, num_bins, SZero),
             !.sn = Resized(@, num_bins, SZero),
             !.pk = Resized(@, num_bins, SZero),
             !.xi = Resized(@, num_bins, SZero)]

\* reset_stats without the fill of xi.
reset_stats_keeping_xi(st) ==
  [st EXCEPT !.nmodes = [i \in 1..Len(@) |-> 0],
             !.npairs = [i \in 1..Len(@) |-> 0],
             !.k = [i \in 1..Len(@) |-> SZero],
             !.r = [i \in 1..Len(@) |-> SZero],
             !.sn = [i \in 1..Len(@) |-> SZero],
             !.pk = [i \in 1..Len(@) |-> SZero]]

\* FieldStats::reset_stats.
reset_stats(st) ==
  [st EXCEPT !.nmodes = [i \in 1..Len(@) |-> 0],
             !.npairs = [i \in 1..Len(@) |-> 0],
             !.k = [i \in 1..Len(@) |-> SZero],
             !.r = [i \in 1..Len(@) |-> SZero],
             !.sn = [i \in 1..Len(@) |-> SZero],
             !.pk = [i \in 1..Len(@) |-> SZero],
             !.xi = [i \in 1..Len(@) |-> SZero]]

\* if_fields_compatible comparing the box size of field_a only.
if_fields_compatible_boxsize_a_only(st, field_a, field_b) ==
  /\ \A a \in 1..3 :
       ~ \/ st.params.boxsize[a] # field_a.params.boxsize[a]
         \/ st.params.ngrid[a] # field_a.params.ngrid[a]
         \/ st.params.ngrid[a] # field_b.params.ngrid[a]
  /\ ~ \/ st.params.nmesh # field_a.params.nmesh
       \/ st.params.nmesh # field_b.params.nmesh
       \/ st.params.volume # field_b.params.volume
       \/ st.params.volume # field_b.params.volume

\* FieldStats::if_fields_compatible.  Both volume comparisons of the code
\* read field_b.
if_fields_compatible(st, field_a, field_b) ==
  /\ \A a \in 1..3 :
       ~ \/ st.params.boxsize[a] # field_a.params.boxsize[a]
         \/ st.params.boxsize[a] # field_b.params.boxsize[a]
         \/ st.params.ngrid[a] # field_a.params.ngrid[a]
         \/ st.params.ngrid[a] # field_b.params.ngrid[a]
  /\ ~ \/ st.params.nmesh # field_a.params.nmesh
       \/ st.params.nmesh # field_b.params.nmesh
       \/ st.params.volume # field_b.params.volume
       \/ st.params.volume # field_b.params.volume

\* const int n_sample = 1e5.
n_sample == 100000

\* floor(2 * k_ / dk_sample) for the wavevector kv[a] = mvec[a] * dk[a],
\* dk[a] = 2 pi / boxsize[a] and dk_sample = 1e-4, as the code's double
\* arithmetic gives it: k_ = pi * sqrt(T) for the integer
\* T = sum of (2 * mvec[a] / boxsize[a])^2.
TwiceFineWavenumber(params, mvec) ==
  LET c(a) == (2 * mvec[a]) \div params.boxsize[a]
      T == c(1) * c(1) + c(2) * c(2) + c(3) * c(3)
  IN  CASE T = 0 -> 0
        [] T = 1 -> 62831
        [] T = 2 -> 88857
        [] T = 3 -> 108827
        [] T = 4 -> 125663
        [] T = 5 -> 140496
        [] T = 6 -> 153905
        [] T = 8 -> 177715
        [] T = 9 -> 188495
        [] T = 12 -> 217655

\* int(k_ / dk_sample + 0.5).
FineIndexK(params, mvec) == (TwiceFineWavenumber(params, mvec) + 1) \div 2

\* The separation vector rv[a] = mvec[a] * dr[a], dr[a] = boxsize[a] /
\* ngrid[a], as <<num, den>>: its magnitude r_ is sqrt(num) / den.
Separation(params, mvec) ==
  LET den == params.ngrid[1] * params.ngrid[2] * params.ngrid[3]
      c(a) == mvec[a] * params.boxsize[a] * (den \div params.ngrid[a])
  IN  <<c(1) * c(1) + c(2) * c(2) + c(3) * c(3), den>>

\* int(r_ / dr_sample + 0.5) with dr_sample = 0.5: the f with
\* f - 1/2 <= 2 * sqrt(num) / den < f + 1/2.
FineIndexR(params, mvec) ==
  LET sep == Separation(params, mvec)
      reach == 2 * (Abs(mvec[1]) * params.boxsize[1]
                    + Abs(mvec[2]) * params.boxsize[2]
                    + Abs(mvec[3]) * params.boxsize[3]) + 1
  IN  CHOOSE f \in 0..reach :
        /\ f = 0 \/ (2 * f - 1) * (2 * f - 1) * sep[2] * sep[2] <= 16 * sep[1]
        /\ 16 * sep[1] < (2 * f + 1) * (2 * f + 1) * sep[2] * sep[2]

\* int(kvec[a] / dk[a] + eps_gridsize_fourier) for kvec[a] = m * dk[a]:
\* the conversion truncates towards zero.
IndexOfWavevector(mvec) ==
  [a \in 1..3 |-> IF mvec[a] >= 0 THEN mvec[a] ELSE mvec[a] + 1]

\* The product of the window responses of the two fields at a mode, by
\* what it is evaluated at.
WindowProduct(field_a, field_b, kv) ==
  [kind |-> "window", a |-> field_a.params.assignment,
   b |-> field_b.params.assignment, ijk |-> IndexOfWavevector(kv)]

\* calc_shotnoise_aliasing(kv) as a divisor, by what it is evaluated at.
AliasingScalar(st, kv) ==
  [kind |-> "aliasing", assignment |-> st.params.assignment,
   ijk |-> IndexOfWavevector(kv)]

\* win_pk and win_sn as a build with DBG_NOAC defined forms them.
GridCorrection_dbg_noac(st, field_a, field_b, kv) ==
  IF st.params.interlace = "true"
  THEN [win_pk |-> WindowProduct(field_a, field_b, kv),
        win_sn |-> WindowProduct(field_a, field_b, kv)]
  ELSE [win_pk |-> WindowProduct(field_a, field_b, kv),
        win_sn |-> AliasingScalar(st, kv)]

\* win_pk and win_sn of one mode in the default build.
GridCorrection(st, field_a, field_b, kv) ==
  IF st.params.interlace = "true"
  THEN [win_pk |-> WindowProduct(field_a, field_b, kv),
        win_sn |-> WindowProduct(field_a, field_b, kv)]
  ELSE [win_pk |-> AliasingScalar(st, kv),
        win_sn |-> AliasingScalar(st, kv)]

\* pk_mode and sn_mode of the cell the loops visit as (i, j, k), before the
\* harmonic weight.
ModePower(st, field_a, field_b, shotnoise_amp, c) ==
  LET idx_grid == get_grid_index(field_a.params, c[1], c[2], c[3])
      kv == get_grid_wavevector(field_a.params, c[1], c[2], c[3])
      corr == GridCorrection(st, field_a, field_b, kv)
  IN  [idx_grid |-> idx_grid, kv |-> kv,
       pk_mode |-> [num |-> CMul(field_a.field[idx_grid],
                                 CConj(field_b.field[idx_grid])),
                    win |-> corr.win_pk],
       sn_mode |-> [num |-> shotnoise_amp,
                    alias |-> [assignment |-> st.params.assignment,
                               ijk |-> IndexOfWavevector(kv)],
                    win |-> corr.win_sn]]

\* The cells in the order of the loops over this->params.ngrid.
LoopCells(st) ==
  [t \in 1..(st.params.ngrid[1] * st.params.ngrid[2] * st.params.ngrid[3])
    |-> CellOf(st.params, t - 1)]

\* The positions of the samples in the order the binning adds them: by
\* fine index, and within one fine index in the order of the loops.
FineOrder(samples) ==
  LET before(u, t) == \/ samples[u].idx < samples[t].idx
                      \/ samples[u].idx = samples[t].idx /\ u < t
      rank(t) == Cardinality({u \in 1..Len(samples) : before(u, t)}) + 1
  IN  [p \in 1..Len(samples) |->
        CHOOSE t \in 1..Len(samples) : rank(t) = p]

\* lower < i * d_sample <= upper with open upper edge.
InBinOpenAbove(lower, i, upper) == lower < 2 * i /\ 2 * i < upper

\* lower < i * d_sample <= upper, the edges being twice their value in
\* units of d_sample.
InBin(lower, i, upper) == lower < 2 * i /\ 2 * i <= upper

\* The samples of a bin without the limit of the fine table.
BinMembersOfAnyFineIndex(samples, binning, ibin) ==
  SelectSeq(<<>> \o FineOrder(samples),
            LAMBDA t : InBin(binning.bin_edges[ibin], samples[t].idx,
                             binning.bin_edges[ibin + 1]))

\* The samples a bin receives: those of a fine index below n_sample that
\* lies in the bin.
BinMembers(samples, binning, ibin) ==
  SelectSeq(<<>> \o FineOrder(samples),
            LAMBDA t : /\ samples[t].idx < n_sample
                       /\ InBin(binning.bin_edges[ibin], samples[t].idx,
                                binning.bin_edges[ibin + 1]))

\* The mean without the test of the count.
BinMeanUnguarded(terms, count, fallback) ==
  [terms |-> terms, div |-> count, mul |-> <<1, 1>>]

\* A bin's sum divided by its count, or the fallback when the count is 0.
BinMean(terms, count, fallback) ==
  IF count # 0 THEN [terms |-> terms, div |-> count, mul |-> <<1, 1>>]
  ELSE fallback

\* binning.bin_centres[ibin] as a coordinate.
BinCentre(binning, ibin) ==
  [terms |-> <<[centre |-> binning.bin_centres[ibin]]>>, div |-> 1,
   mul |-> <<1, 1>>]

\* The raised exception of the four operations.
IncompatibleFields(st) ==
  [stats |-> st, outcome |-> "InvalidData", ret |-> NoValue, reads |-> 0,
   twopt_3d |-> <<>>]

\* FieldStats::compute_ylm_wgtd_2pt_stats_in_fourier.
compute_ylm_wgtd_2pt_stats_in_fourier(st, field_a, field_b, shotnoise_amp, ell, m, kbinning) ==
  IF ~if_fields_compatible(st, field_a, field_b)
  THEN IncompatibleFields(resize_stats(st, kbinning.num_bins))
  ELSE Only({
    [stats |->
       [cleared EXCEPT
          !.nmodes = [ibin \in 1..kbinning.num_bins |->
                       Len(BinMembers(samples, kbinning, ibin))],
          !.k = [ibin \in 1..kbinning.num_bins |->
                  Only({BinMean([p \in 1..Len(mem) |->
                                   [magnitude |-> samples[mem[p]].kv]],
                                Len(mem), BinCentre(kbinning, ibin))
                        : mem \in {BinMembers(samples, kbinning, ibin)}})],
          !.pk = [ibin \in 1..kbinning.num_bins |->
                   Only({BinMean([p \in 1..Len(mem) |->
                                    samples[mem[p]].pk_mode],
                                 Len(mem), SZero)
                         : mem \in {BinMembers(samples, kbinning, ibin)}})],
          !.sn = [ibin \in 1..kbinning.num_bins |->
                   Only({BinMean([p \in 1..Len(mem) |->
                                    samples[mem[p]].sn_mode],
                                 Len(mem), SZero)
                         : mem \in {BinMembers(samples, kbinning, ibin)}})]],
     outcome |-> "returned", ret |-> NoValue,
     reads |-> 2 * Cardinality({t \in 1..Len(samples) :
                                  samples[t].idx < n_sample}),
     twopt_3d |-> <<>>]
    : cleared \in {reset_stats(resize_stats(st, kbinning.num_bins))},
      samples \in {<<>> \o
        [t \in 1..Len(LoopCells(st)) |->
          LET mode == ModePower(st, field_a, field_b, shotnoise_amp,
                                LoopCells(st)[t])
          IN  [idx |-> FineIndexK(field_a.params, mode.kv),
               kv |-> mode.kv,
               pk_mode |-> mode.pk_mode @@ [ylm |-> <<ell, m, mode.kv>>],
               sn_mode |-> mode.sn_mode @@ [ylm |-> <<ell, m, mode.kv>>]]]}})

\* twopt_3d before the backwards transform: per cell, pk_mode - sn_mode
\* over vol.
TwoPoint3d(st, field_a, field_b, shotnoise_amp) ==
  <<>> \o [t \in 1..Len(LoopCells(st)) |->
            LET mode == ModePower(st, field_a, field_b, shotnoise_amp,
                                  LoopCells(st)[t])
            IN  [idx_grid |-> mode.idx_grid, pk_mode |-> mode.pk_mode,
                 sn_mode |-> mode.sn_mode, vol |-> st.vol]]

\* The configuration-space samples of the cells: fine index, separation
\* vector and the cell of the transformed twopt_3d that is read.
PairSamples(st, field_a) ==
  <<>> \o [t \in 1..Len(LoopCells(st)) |->
            LET c == LoopCells(st)[t]
                rv == get_grid_pos_vector(field_a.params, c[1], c[2], c[3])
            IN  [idx |-> FineIndexR(field_a.params, rv), rv |-> rv,
                 idx_grid |-> get_grid_index(field_a.params, c[1], c[2],
                                             c[3])]]

\* FieldStats::compute_ylm_wgtd_2pt_stats_in_config.
compute_ylm_wgtd_2pt_stats_in_config(st, field_a, field_b, shotnoise_amp, ell, m, rbinning) ==
  IF ~if_fields_compatible(st, field_a, field_b)
  THEN IncompatibleFields(resize_stats(st, rbinning.num_bins))
  ELSE Only({
    [stats |->
       [cleared EXCEPT
          !.npairs = [ibin \in 1..rbinning.num_bins |->
                       Len(BinMembers(samples, rbinning, ibin))],
          !.r = [ibin \in 1..rbinning.num_bins |->
                  Only({BinMean([p \in 1..Len(mem) |->
                                   [magnitude |-> samples[mem[p]].rv]],
                                Len(mem), BinCentre(rbinning, ibin))
                        : mem \in {BinMembers(samples, rbinning, ibin)}})],
          !.xi = [ibin \in 1..rbinning.num_bins |->
                   Only({BinMean([p \in 1..Len(mem) |->
                                    [twopt_3d |-> samples[mem[p]].idx_grid,
                                     ylm |-> <<ell, m, samples[mem[p]].rv>>]],
                                 Len(mem), SZero)
                         : mem \in {BinMembers(samples, rbinning, ibin)}})]],
     outcome |-> "returned", ret |-> NoValue,
     reads |-> 2 * Len(samples),
     twopt_3d |-> TwoPoint3d(st, field_a, field_b, shotnoise_amp)]
    : cleared \in {reset_stats(resize_stats(st, rbinning.num_bins))},
      samples \in {PairSamples(st, field_a)}})

\* FieldStats::compute_uncoupled_shotnoise_for_3pcf.  After the binning,
\* xi of every bin with pairs is multiplied by
\* 1 / vol_cell * (-1)^(ell1 + ell2) / npairs.
compute_uncoupled_shotnoise_for_3pcf(st, field_a, field_b, ylm_a, ylm_b, shotnoise_amp, rbinning) ==
  IF ~if_fields_compatible(st, field_a, field_b)
  THEN IncompatibleFields(resize_stats(st, rbinning.num_bins))
  ELSE Only({
    [stats |->
       [cleared EXCEPT
          !.npairs = [ibin \in 1..rbinning.num_bins |->
                       Len(BinMembers(samples, rbinning, ibin))],
          !.r = [ibin \in 1..rbinning.num_bins |->
                  Only({BinMean([p \in 1..Len(mem) |->
                                   [magnitude |-> samples[mem[p]].rv]],
                                Len(mem), BinCentre(rbinning, ibin))
                        : mem \in {BinMembers(samples, rbinning, ibin)}})],
          !.xi = [ibin \in 1..rbinning.num_bins |->
                   Only({
                     IF Len(mem) # 0
                     THEN [BinMean([p \in 1..Len(mem) |->
                                      [twopt_3d |-> samples[mem[p]].idx_grid,
                                       ylm |-> CMul(
                                         ylm_a[samples[mem[p]].idx_grid],
                                         ylm_b[samples[mem[p]].idx_grid])]],
                                   Len(mem), SZero)
                           EXCEPT !.mul =
                             <<(IF (st.params.ell1 + st.params.ell2) % 2 = 0
                                THEN 1 ELSE -1) * st.params.nmesh,
                               st.vol * Len(mem)>>]
                     ELSE BinMean(<<>>, Len(mem), SZero)
                     : mem \in {BinMembers(samples, rbinning, ibin)}})]],
     outcome |-> "returned", ret |-> NoValue,
     reads |-> 2 * Len(samples),
     twopt_3d |-> TwoPoint3d(st, field_a, field_b, shotnoise_amp)]
    : cleared \in {reset_stats(resize_stats(st, rbinning.num_bins))},
      samples \in {PairSamples(st, field_a)}})

\* FieldStats::compute_uncoupled_shotnoise_for_bispec_per_bin: the sum
\* over the cells of ja * jb * ylm_a * ylm_b * twopt_3d, times vol_cell.
\* The statistics arrays are not touched.
compute_uncoupled_shotnoise_for_bispec_per_bin(st, field_a, field_b, ylm_a, ylm_b, shotnoise_amp, k_a, k_b) ==
  IF ~if_fields_compatible(st, field_a, field_b)
  THEN IncompatibleFields(st)
  ELSE Only({
    [stats |-> st, outcome |-> "returned",
     ret |-> [terms |-> [t \in 1..Len(samples) |->
                          [twopt_3d |-> samples[t].idx_grid,
                           ylm |-> CMul(ylm_a[samples[t].idx_grid],
                                        ylm_b[samples[t].idx_grid]),
                           bessel |-> <<k_a, k_b, samples[t].rv>>]],
              div |-> 1, mul |-> <<st.vol, st.params.nmesh>>],
     reads |-> 2 * Len(samples),
     twopt_3d |-> TwoPoint3d(st, field_a, field_b, shotnoise_amp)]
    : samples \in {PairSamples(st, field_a)}})

(***************************************************************************)
(* The values of the variables a specification does not use.               *)
(***************************************************************************)

NoCall == [op |-> "none"]

NoMesh == [params |-> <<>>, field |-> NullBuffer, field_s |-> NullBuffer,
           vol |-> 0]

NoStats == [params |-> <<>>]

NoCatalogue == [pdata |-> <<"none">>]

(***************************************************************************)
(* Specification SpecAssign: a MeshField is constructed and particle       *)
(* catalogues are assigned to it.                                          *)
(***************************************************************************)

\* Axis resolutions run over 1..MaxNAssign.
MaxNAssign == 2

\* Particle weights w run over 1..MaxW.
MaxW == 2

\* The current-task index runs over 0..MaxTask.
MaxTask == 1

AssignShapes ==
  {<<nx, ny, nz>> : nx \in 1..MaxNAssign, ny \in 1..MaxNAssign,
                    nz \in 1..MaxNAssign}

\* The selectors tried: the four kernels and one that is none of them.
AssignmentSelectors == SupportedKernels \cup {"nnb"}

AssignParams ==
  {ParameterSet(<<1, 1, 2>>, g, 2, a, il) :
     g \in AssignShapes, a \in AssignmentSelectors,
     il \in {"true", "false"}}

\* Positions of one axis of n cells: the cell positions, and 1/PosDen of
\* a cell below the first cell, below the upper face and above it.
AxisPositions(n) ==
  {a * PosDen : a \in 0..(n - 1)}
    \cup {-1, n * PosDen - 1, n * PosDen + 1}

\* Positions tried on a grid: every cell position, and every position
\* that is off the cell positions on one axis.
Positions(ngrid) ==
  LET cells(a) == {c * PosDen : c \in 0..(ngrid[a] - 1)}
  IN  {<<x, y, z>> : x \in cells(1), y \in cells(2), z \in cells(3)}
        \cup {<<x, y, z>> : x \in AxisPositions(ngrid[1]), y \in {0},
                            z \in {(ngrid[3] - 1) * PosDen}}
        \cup {<<x, y, z>> : x \in {0}, y \in AxisPositions(ngrid[2]),
                            z \in {(ngrid[3] - 1) * PosDen}}
        \cup {<<x, y, z>> : x \in {(ngrid[1] - 1) * PosDen}, y \in {0},
                            z \in AxisPositions(ngrid[3])}

Particles(ngrid) ==
  {[pos |-> r, w |-> w] : r \in Positions(ngrid), w \in 1..MaxW}

UnitParticles(ngrid) == {[pos |-> r, w |-> 1] : r \in Positions(ngrid)}

\* Complex weights and harmonic values tried.
ComplexValues == {CInt(1, 0), CInt(1, -1)}

InitAssign ==
  /\ currTask \in 0..MaxTask
  /\ mesh \in {MeshField(ps) : ps \in AssignParams}
  /\ mesh_b = NoMesh
  /\ stats = NoStats
  /\ call = NoCall
  /\ outcome = "none"
  /\ ret = NoValue
  /\ trace = <<>>
  /\ saved = NullBuffer
  /\ gbytesMem = LiveBytes(mesh) + LiveBytes(mesh_b)
  /\ fields = <<>>
  /\ catalogue = NoCatalogue

\* Each run performs one operation on the mesh just constructed.
AssignWeightedFieldToMesh ==
  /\ trace = <<>>
  /\ \E pt \in UnitParticles(mesh.params.ngrid), wt \in ComplexValues :
       \E res \in {assign_weighted_field_to_mesh(mesh, <<pt>>, <<wt>>,
                                                  currTask)} :
           /\ mesh' = res.mesh
           /\ outcome' = res.outcome
           /\ call' = [op |-> "assign_weighted_field_to_mesh",
                       particles |-> <<pt>>, weights |-> <<wt>>]
  /\ trace' = Append(trace, "assign_weighted_field_to_mesh")
  /\ UNCHANGED <<currTask, mesh_b, stats, ret, saved, gbytesMem,
               fields, catalogue>>

\* The catalogues of the two-catalogue constructions: one particle, at the
\* first cell or 1/PosDen of a cell above the upper face of the last
\* axis, with its harmonic value.
SmallCatalogues(ngrid) ==
  {[particles |-> <<[pos |-> <<0, 0, 0>>, w |-> 1]>>,
    ylm |-> <<CInt(1, 0)>>],
   [particles |-> <<[pos |-> <<0, 0, 0>>, w |-> MaxW]>>,
    ylm |-> <<CInt(1, -1)>>],
   [particles |-> <<[pos |-> <<0, 0, ngrid[3] * PosDen + 1>>, w |-> MaxW]>>,
    ylm |-> <<CInt(1, -1)>>]}

\* The ratio alpha tried, as <<numerator, denominator>>.
Alphas == {<<3, 2>>}

ComputeYlmWgtdField ==
  /\ trace = <<>>
  /\ \E d \in SmallCatalogues(mesh.params.ngrid),
        r \in SmallCatalogues(mesh.params.ngrid), alpha \in Alphas :
       \E res \in {compute_ylm_wgtd_field(mesh, d.particles, r.particles,
                                           d.ylm, r.ylm, alpha, currTask)} :
           /\ mesh' = res.mesh
           /\ outcome' = res.outcome
           /\ call' = [op |-> "compute_ylm_wgtd_field", data |-> d,
                       rand |-> r, alpha |-> alpha]
  /\ trace' = Append(trace, "compute_ylm_wgtd_field")
  /\ UNCHANGED <<currTask, mesh_b, stats, ret, saved, gbytesMem,
               fields, catalogue>>

ComputeYlmWgtdQuadField ==
  /\ trace = <<>>
  /\ \E d \in SmallCatalogues(mesh.params.ngrid),
        r \in SmallCatalogues(mesh.params.ngrid), alpha \in Alphas :
       \E res \in {compute_ylm_wgtd_quad_field(
                      mesh, d.particles, r.particles, d.ylm, r.ylm, alpha,
                      currTask)} :
           /\ mesh' = res.mesh
           /\ outcome' = res.outcome
           /\ call' = [op |-> "compute_ylm_wgtd_quad_field", data |-> d,
                       rand |-> r, alpha |-> alpha]
  /\ trace' = Append(trace, "compute_ylm_wgtd_quad_field")
  /\ UNCHANGED <<currTask, mesh_b, stats, ret, saved, gbytesMem,
               fields, catalogue>>

NextAssign ==
  \/ AssignWeightedFieldToMesh
  \/ ComputeYlmWgtdField
  \/ ComputeYlmWgtdQuadField

SpecAssign == InitAssign /\ [][NextAssign]_vars

(***************************************************************************)
(* Properties of mesh assignment, checked under SpecAssign.                *)
(***************************************************************************)

AfterAssign ==
  /\ call.op = "assign_weighted_field_to_mesh"
  /\ mesh.params.assignment \in SupportedKernels

\* A contribution whose cell index lies within [0, ngrid) on every axis.
InGrid(params, c) ==
  \A a \in 1..3 : 0 <= c.ijk[a] /\ c.ijk[a] < params.ngrid[a]

\* The buffer a pass leaves when exactly the contributions lying within
\* the grid on every axis are added.
InGridBuffer(shadow) ==
  Only({[gid \in 0..(mesh.params.nmesh - 1) |-> SumAt(kept, gid)]
        : kept \in {SelectSeq(
                      PassContribs(mesh.params, mesh.vol, call.particles,
                                   call.weights, shadow, 1),
                      LAMBDA c : InGrid(mesh.params, c))}})

\* C3: for every kernel and for both passes, a contribution whose cell
\* index on some axis lies outside [0, ngrid) of that axis changes no cell:
\* the buffers hold the in-grid contributions only.
C3_OutOfGridContributionsDropped ==
  AfterAssign =>
    /\ mesh.field = InGridBuffer(FALSE)
    /\ mesh.params.interlace = "true" => mesh.field_s = InGridBuffer(TRUE)

\* The particle of the call sits exactly on the cell (a, b, c) of the grid.
OnCell(pos, ngrid) ==
  \A a \in 1..3 : pos[a] % PosDen = 0 /\ 0 <= pos[a]
                  /\ pos[a] < ngrid[a] * PosDen

\* C4: a single particle of weight 1 exactly at cell (a, b, c), assigned
\* with the NGP kernel and no interlacing, leaves 1 / vol_cell at the
\* flattened index (a * ny + b) * nz + c and zero at every other cell.
C4_NgpSingleParticle ==
  (/\ AfterAssign
   /\ mesh.params.assignment = "ngp"
   /\ mesh.params.interlace = "false"
   /\ call.weights = <<CInt(1, 0)>>
   /\ OnCell(call.particles[1].pos, mesh.params.ngrid))
  => LET pos == call.particles[1].pos
         a == pos[1] \div PosDen
         b == pos[2] \div PosDen
         c == pos[3] \div PosDen
         ny == mesh.params.ngrid[2]
         nz == mesh.params.ngrid[3]
     IN  /\ outcome = "returned"
         /\ DOMAIN mesh.field = 0..(mesh.params.nmesh - 1)
         /\ \A gid \in DOMAIN mesh.field :
              mesh.field[gid] =
                IF gid = (a * ny + b) * nz + c
                THEN <<RRat(mesh.params.nmesh, mesh.params.volume), RZero>>
                ELSE CZero

\* The 2x2x2 box of volume 2 with the particle at cell (1, 0, 1): cell 5
\* holds 8 / 2.
C4_Witness ==
  /\ AfterAssign
  /\ mesh.params.assignment = "ngp"
  /\ mesh.params.interlace = "false"
  /\ mesh.params.ngrid = <<2, 2, 2>>
  /\ mesh.params.volume = 2
  /\ call.weights = <<CInt(1, 0)>>
  /\ call.particles[1].pos = <<PosDen, 0, PosDen>>
  /\ mesh.field[5] = CInt(4, 0)

\* The kernel assignment of a catalogue with the given weights to a fresh
\* mesh of the same parameters.
Assigned(particles, weights) ==
  assign_weighted_field_to_mesh_kernel(MeshField(mesh.params), particles,
                                       weights)

AfterTwoCatalogue ==
  /\ call.op \in {"compute_ylm_wgtd_field", "compute_ylm_wgtd_quad_field"}
  /\ mesh.params.assignment \in SupportedKernels

\* C9: after the two-catalogue compute_ylm_wgtd_field (resp. quad field)
\* every cell of the primary buffer is D - alpha * R (resp.
\* D + alpha^2 * R), D and R being the kernel assignments of the data and
\* random catalogues with weights ylm * w (resp. conj(ylm) * w^2); with
\* interlacing the shadow buffer is the same combination of the shadow
\* assignments.
C9_TwoCatalogueCombination ==
  AfterTwoCatalogue =>
    LET quad == call.op = "compute_ylm_wgtd_quad_field"
        wgt(cat) ==
          [pid \in 1..Len(cat.particles) |->
            IF quad
            THEN CMul(CConj(cat.ylm[pid]),
                      CInt(cat.particles[pid].w * cat.particles[pid].w, 0))
            ELSE CMul(cat.ylm[pid], CInt(cat.particles[pid].w, 0))]
        alpha == RRat(call.alpha[1], call.alpha[2])
        factor == IF quad THEN RMul(alpha, alpha) ELSE RNeg(alpha)
    IN  \E D \in {Assigned(call.data.particles, wgt(call.data))},
           R \in {Assigned(call.rand.particles, wgt(call.rand))} :
          /\ outcome = "returned"
          /\ DOMAIN mesh.field = 0..(mesh.params.nmesh - 1)
          /\ \A gid \in DOMAIN mesh.field :
               mesh.field[gid]
                 = CAdd(D.field[gid], CMulReal(R.field[gid], factor))
          /\ mesh.params.interlace = "true" =>
               /\ DOMAIN mesh.field_s = DOMAIN mesh.field
               /\ \A gid \in DOMAIN mesh.field_s :
                    mesh.field_s[gid]
                      = CAdd(D.field_s[gid], CMulReal(R.field_s[gid], factor))

\* An interlaced CIC mesh of 2x2x2 cells after compute_ylm_wgtd_field with
\* different data and random catalogues and alpha = 3/2: the shadow buffer
\* holds a non-zero combination.
C9_Witness ==
  /\ call.op = "compute_ylm_wgtd_field"
  /\ mesh.params.assignment = "cic"
  /\ mesh.params.interlace = "true"
  /\ mesh.params.ngrid = <<2, 2, 2>>
  /\ call.data # call.rand
  /\ call.alpha = <<3, 2>>
  /\ \E gid \in DOMAIN mesh.field_s : mesh.field_s[gid] # CZero
  /\ \E gid \in DOMAIN mesh.field : mesh.field[gid] # CZero

\* C10: assign_weighted_field_to_mesh with a selector other than 'ngp',
\* 'cic', 'tsc' or 'pcs' raises InvalidParameter, whatever the current-task
\* index.
C10_UnsupportedSelectorRaises ==
  (/\ call.op = "assign_weighted_field_to_mesh"
   /\ mesh.params.assignment \notin SupportedKernels)
  => outcome = "InvalidParameter"


(***************************************************************************)
(* Specification SpecGrid: a MeshField is constructed and its grid         *)
(* geometry is queried.                                                    *)
(***************************************************************************)

\* Axis resolutions run over 1..MaxNGrid.
MaxNGrid == 4

GridParams ==
  {ParameterSet(<<1, 1, 1>>, <<nx, ny, nz>>, 1, "tsc", "false") :
     nx \in 1..MaxNGrid, ny \in 1..MaxNGrid, nz \in 1..MaxNGrid}

InitGrid ==
  /\ currTask = 0
  /\ mesh \in {MeshField(ps) : ps \in GridParams}
  /\ mesh_b = NoMesh
  /\ stats = NoStats
  /\ call = NoCall
  /\ outcome = "none"
  /\ ret = NoValue
  /\ trace = <<>>
  /\ saved = NullBuffer
  /\ gbytesMem = LiveBytes(mesh) + LiveBytes(mesh_b)
  /\ fields = <<>>
  /\ catalogue = NoCatalogue

\* The cells of the grid.
Cells(params) ==
  {<<i, j, k>> : i \in 0..(params.ngrid[1] - 1),
                 j \in 0..(params.ngrid[2] - 1),
                 k \in 0..(params.ngrid[3] - 1)}

GetGridIndex ==
  /\ \E c \in Cells(mesh.params) :
       /\ ret' = get_grid_index(mesh.params, c[1], c[2], c[3])
       /\ call' = [op |-> "get_grid_index", ijk |-> c]
  /\ outcome' = "returned"
  /\ trace' = <<"get_grid_index">>
  /\ UNCHANGED <<currTask, mesh, mesh_b, stats, saved, gbytesMem,
               fields, catalogue>>

GetGridPosVector ==
  /\ \E c \in Cells(mesh.params) :
       /\ ret' = get_grid_pos_vector(mesh.params, c[1], c[2], c[3])
       /\ call' = [op |-> "get_grid_pos_vector", ijk |-> c]
  /\ outcome' = "returned"
  /\ trace' = <<"get_grid_pos_vector">>
  /\ UNCHANGED <<currTask, mesh, mesh_b, stats, saved, gbytesMem,
               fields, catalogue>>

GetGridWavevector ==
  /\ \E c \in Cells(mesh.params) :
       /\ ret' = get_grid_wavevector(mesh.params, c[1], c[2], c[3])
       /\ call' = [op |-> "get_grid_wavevector", ijk |-> c]
  /\ outcome' = "returned"
  /\ trace' = <<"get_grid_wavevector">>
  /\ UNCHANGED <<currTask, mesh, mesh_b, stats, saved, gbytesMem,
               fields, catalogue>>

NextGrid ==
  \/ GetGridIndex
  \/ GetGridPosVector
  \/ GetGridWavevector

SpecGrid == InitGrid /\ [][NextGrid]_vars

\* C8: for every axis resolution n and every index idx in [0, n), the
\* signed index m of get_grid_wavevector and get_grid_pos_vector is idx or
\* idx - n, it is idx - n exactly when 2 * idx >= n, and 2 * |m| <= n.
C8_SignedIndexIsDftFrequency ==
  call.op \in {"get_grid_wavevector", "get_grid_pos_vector"} =>
    \A a \in 1..3 :
      LET n == mesh.params.ngrid[a]
          idx == call.ijk[a]
          m == ret[a]
      IN  /\ m = (IF 2 * idx >= n THEN idx - n ELSE idx)
          /\ 2 * Abs(m) <= n

(***************************************************************************)
(* Specification SpecTransform: a MeshField holding some field content is  *)
(* transformed forwards and backwards.                                     *)
(***************************************************************************)

\* Grids of at most MaxMeshFT cells are transformed.
MaxMeshFT == 4

\* At most MaxImpulses samples of the primary buffer are non-zero.
MaxImpulses == 2

\* At most MaxOpsFT transforms are performed in a run.
MaxOpsFT == 2

\* The axis resolutions whose transform and interlacing phases are exact.
ExactAxes == {1, 2, 3, 4, 6}

TransformShapes ==
  {g \in ExactAxes \X ExactAxes \X ExactAxes : g[1] * g[2] * g[3] <= MaxMeshFT}

TransformParams ==
  {ParameterSet(<<1, 1, 2>>, g, 2, "tsc", il) :
     g \in TransformShapes, il \in {"true", "false"}}

\* The non-zero sample values tried.
SampleValues == {CInt(1, 0), <<RRat(-1, 2), RInt(1)>>}

\* The buffers of nmesh samples with at most count non-zero samples.
Contents(nmesh, count) ==
  {b \in [0..(nmesh - 1) -> SampleValues \cup {CZero}] :
     Cardinality({gid \in 0..(nmesh - 1) : b[gid] # CZero}) <= count}

InitTransform ==
  /\ currTask = 0
  /\ \E ps \in TransformParams :
       \E f \in Contents(ps.nmesh, MaxImpulses),
          fs \in (IF ps.interlace = "true" THEN Contents(ps.nmesh, 1)
                  ELSE {NullBuffer}) :
         /\ mesh = [params |-> ps, field |-> f, field_s |-> fs,
                    vol |-> ps.volume]
         /\ saved = f
  /\ mesh_b = NoMesh
  /\ stats = NoStats
  /\ call = NoCall
  /\ outcome = "none"
  /\ ret = NoValue
  /\ trace = <<>>
  /\ gbytesMem = LiveBytes(mesh) + LiveBytes(mesh_b)
  /\ fields = <<>>
  /\ catalogue = NoCatalogue

FourierTransform ==
  /\ Len(trace) < MaxOpsFT
  /\ mesh' = fourier_transform(mesh)
  /\ call' = [op |-> "fourier_transform"]
  /\ outcome' = "returned"
  /\ trace' = Append(trace, "fourier_transform")
  /\ UNCHANGED <<currTask, mesh_b, stats, ret, saved, gbytesMem,
               fields, catalogue>>

InvFourierTransform ==
  /\ Len(trace) < MaxOpsFT
  /\ mesh' = inv_fourier_transform(mesh)
  /\ call' = [op |-> "inv_fourier_transform"]
  /\ outcome' = "returned"
  /\ trace' = Append(trace, "inv_fourier_transform")
  /\ UNCHANGED <<currTask, mesh_b, stats, ret, saved, gbytesMem,
               fields, catalogue>>

NextTransform ==
  \/ FourierTransform
  \/ InvFourierTransform

SpecTransform == InitTransform /\ [][NextTransform]_vars

RoundTripDone == trace = <<"fourier_transform", "inv_fourier_transform">>

\* C7 as stated: for every configuration, interlaced or not, and every
\* content, fourier_transform followed by inv_fourier_transform returns
\* every sample of the primary buffer to its original value.
C7_RoundTrip == RoundTripDone => mesh.field = saved

\* C7, amended: with interlacing disabled, fourier_transform followed by
\* inv_fourier_transform returns every sample of the primary buffer to its
\* original value.
C7_RoundTripWithoutInterlacing ==
  (RoundTripDone /\ mesh.params.interlace # "true") => mesh.field = saved

\* A 2x2x1 grid of volume 2, not interlaced, with two non-zero samples,
\* after the round trip.
C7_Witness ==
  /\ RoundTripDone
  /\ mesh.params.interlace = "false"
  /\ mesh.params.ngrid = <<2, 2, 1>>
  /\ mesh.params.volume = 2
  /\ Cardinality({gid \in DOMAIN saved : saved[gid] # CZero}) = 2
  /\ mesh.field = saved

\* An interlaced forward transform is being performed.
InterlacedTransformStep ==
  /\ trace' # trace
  /\ trace'[Len(trace')] = "fourier_transform"
  /\ mesh.params.interlace = "true"

\* idx wrapped to the interval (-n/2, n/2].
WrappedAbove(idx, n) == IF 2 * idx <= n THEN idx ELSE idx - n

\* The primary buffer in which every sample is the half-and-half average of
\* the transformed primary sample of m and the sample of the transformed
\* shadow buffer fs turned by the phase exp(i pi (mx + my + mz)),
\* m = wrapped(idx, n) / n per axis.
AverageWithShadow(m, fs, wrapped(_, _)) ==
  LET arg(gid) ==
        LET c == CellOf(m.params, gid)
            t(a) == (12 \div m.params.ngrid[a])
                      * wrapped(c[a], m.params.ngrid[a])
        IN  t(1) + t(2) + t(3)
  IN  Only({
        [gid \in DOMAIN m.field |->
          CScale(CAdd(f[gid], CMul(PhaseTwelfth(arg(gid)), fs[gid])), 1, 2)]
        : f \in {fftw_execute(
                   m.params,
                   ScaleBuffer(m.field, m.vol, m.params.nmesh), -1)}})

\* C21 as stated: in the interlaced fourier_transform the index fraction m
\* of every axis lies in (-1/2, 1/2], the index n/2 of an even axis getting
\* +1/2, and every primary sample becomes the half-and-half average of the
\* transformed primary sample and the transformed shadow sample turned by
\* exp(i pi (mx + my + mz)).
C21_PhaseFractionWrappedAbove ==
  [][InterlacedTransformStep
       => mesh'.field
            = AverageWithShadow(mesh, mesh'.field_s, WrappedAbove)]_vars

\* C21, amended: the index fraction m of every axis is the signed index of
\* get_grid_wavevector over n, idx / n below n / 2 (integer division) and
\* idx / n - 1 from there on, the index n/2 of an even axis getting -1/2;
\* every primary sample becomes the half-and-half average of the primary
\* sample and the shadow sample turned by exp(i pi (mx + my + mz)).
C21_PhaseFractionIsSignedIndex ==
  [][InterlacedTransformStep
       => mesh'.field
            = AverageWithShadow(mesh, mesh'.field_s, SignedIndex)]_vars

\* An interlaced 2x1x1 grid transformed once, the shadow sample of index
\* n/2 = 1 of the even axis not zero.
C21_Witness ==
  /\ trace = <<"fourier_transform">>
  /\ mesh.params.interlace = "true"
  /\ mesh.params.ngrid = <<2, 1, 1>>
  /\ mesh.field_s[1] # CZero


(***************************************************************************)
(* Specification SpecStats: a FieldStats object and two MeshFields are     *)
(* constructed, the fields possibly with parameters that differ from the   *)
(* object's, and statistics are computed.                                  *)
(***************************************************************************)

\* At most MaxOpsStats statistics are computed in a run.
MaxOpsStats == 1

StatsShapes == {<<2, 2, 2>>, <<1, 2, 2>>, <<2, 1, 1>>, <<1, 1, 1>>}

StatsBoxes == {<<2, 2, 2>>, <<1, 1, 1>>, <<1, 2, 2>>}

\* Assignment scheme, interlacing and ell1 of the configurations tried.
StatsSchemes == {<<"ngp", "false", 0>>, <<"tsc", "true", 1>>,
                 <<"cic", "false", 1>>}

StatsParams ==
  {[ParameterSet(box, g, box[1] * box[2] * box[3], sch[1], sch[2])
      EXCEPT !.ell1 = sch[3]] :
     box \in StatsBoxes, g \in StatsShapes, sch \in StatsSchemes}

\* How the parameters of a field differ from those of the FieldStats
\* object: not at all, or in one member.
VariantParams(ps, variant) ==
  CASE variant = "same" -> ps
    [] variant = "boxsize" -> [ps EXCEPT !.boxsize[1] = @ + 1]
    [] variant = "ngrid" -> [ps EXCEPT !.ngrid[3] = @ + 1,
                                       !.nmesh = ps.nmesh + ps.ngrid[1]
                                                              * ps.ngrid[2]]
    [] variant = "nmesh" -> [ps EXCEPT !.nmesh = @ + 1]
    [] variant = "volume" -> [ps EXCEPT !.volume = @ + 1]

VariantPairs ==
  {<<"same", "same">>}
    \cup {<<v, "same">> : v \in {"boxsize", "ngrid", "nmesh", "volume"}}
    \cup {<<"same", v>> : v \in {"boxsize", "ngrid", "nmesh", "volume"}}

\* A transformed MeshField of the given parameters; sample gid holds
\* gid + 1 + i (which = 1) or 1 - gid * i (which = 2).
StatsField(ps, which) ==
  LET cells == 0..(ps.ngrid[1] * ps.ngrid[2] * ps.ngrid[3] - 1)
      content == [gid \in cells |->
                   IF which = 1 THEN CInt(gid + 1, 1) ELSE CInt(1, -gid)]
  IN  [params |-> ps, field |-> content,
       field_s |-> IF ps.interlace = "true" THEN content ELSE NullBuffer,
       vol |-> ps.volume]

\* The two fields handed to the statistics are two objects, or one object
\* handed as both.
InitStats ==
  /\ currTask = 0
  /\ \E ps \in StatsParams, v \in VariantPairs :
       /\ stats = FieldStats(ps)
       /\ mesh = StatsField(VariantParams(ps, v[1]), 1)
       /\ \/ mesh_b = StatsField(VariantParams(ps, v[2]), 2)
          \/ v[2] = "same" /\ mesh_b = mesh
  /\ call = NoCall
  /\ outcome = "none"
  /\ ret = NoValue
  /\ trace = <<>>
  /\ saved = NullBuffer
  /\ gbytesMem = LiveBytes(mesh) + LiveBytes(mesh_b)
  /\ fields = <<>>
  /\ catalogue = NoCatalogue

\* trv::Binning with the bin centres at the middle of the bins; edges are
\* twice their value in units of d_sample, centres <<numerator,
\* denominator>> in the edges' unit.
Binning(edges) ==
  [num_bins |-> Len(edges) - 1, bin_edges |-> edges,
   bin_centres |-> [ibin \in 1..(Len(edges) - 1) |->
                     <<edges[ibin] + edges[ibin + 1], 2>>]]

KBinnings ==
  {Binning(<<0, 62832, 130000>>), Binning(<<-2, 62832, 108828>>),
   Binning(<<-2, 250000>>), Binning(<<62832, 70000, 80000, 250000>>)}

RBinnings ==
  {Binning(<<0, 4, 8>>), Binning(<<-1, 2, 6, 20>>), Binning(<<-1, 40>>)}

ShotnoiseAmp == CInt(2, -1)

\* The degrees and orders (ell, m) tried.
Harmonics == {<<0, 0>>, <<2, 1>>}

\* The arrays ylm_a and ylm_b of the three-point shot noise.
YlmA(params) == [gid \in 0..(params.nmesh - 1) |-> CInt(1, 0)]

YlmB(params) == [gid \in 0..(params.nmesh - 1) |-> CInt(gid, 1)]

ComputeYlmWgtd2ptStatsInFourier ==
  /\ Len(trace) < MaxOpsStats
  /\ \E kbinning \in KBinnings, lm \in Harmonics :
       \E res \in {compute_ylm_wgtd_2pt_stats_in_fourier(
                     stats, mesh, mesh_b, ShotnoiseAmp, lm[1], lm[2],
                     kbinning)} :
         /\ stats' = res.stats
         /\ outcome' = res.outcome
         /\ ret' = res.ret
         /\ call' = [op |-> "compute_ylm_wgtd_2pt_stats_in_fourier",
                     binning |-> kbinning, ell |-> lm[1], m |-> lm[2],
                     reads |-> res.reads, twopt_3d |-> res.twopt_3d]
  /\ trace' = Append(trace, "compute_ylm_wgtd_2pt_stats_in_fourier")
  /\ UNCHANGED <<currTask, mesh, mesh_b, saved, gbytesMem,
               fields, catalogue>>

\* compute_ylm_wgtd_2pt_stats_in_config with the backwards transform done
\* in the buffer of field_a.
ComputeYlmWgtd2ptStatsInConfig_in_place ==
  /\ Len(trace) < MaxOpsStats
  /\ \E rbinning \in RBinnings, lm \in Harmonics :
       \E res \in {compute_ylm_wgtd_2pt_stats_in_config(
                     stats, mesh, mesh_b, ShotnoiseAmp, lm[1], lm[2],
                     rbinning)} :
         /\ stats' = res.stats
         /\ outcome' = res.outcome
         /\ ret' = res.ret
         /\ call' = [op |-> "compute_ylm_wgtd_2pt_stats_in_config",
                     binning |-> rbinning, ell |-> lm[1], m |-> lm[2],
                     reads |-> res.reads, twopt_3d |-> res.twopt_3d]
         /\ mesh' = IF res.outcome = "returned"
                    THEN inv_fourier_transform(mesh) ELSE mesh
  /\ trace' = Append(trace, "compute_ylm_wgtd_2pt_stats_in_config")
  /\ UNCHANGED <<currTask, mesh_b, saved, gbytesMem, fields, catalogue>>

ComputeYlmWgtd2ptStatsInConfig ==
  /\ Len(trace) < MaxOpsStats
  /\ \E rbinning \in RBinnings, lm \in Harmonics :
       \E res \in {compute_ylm_wgtd_2pt_stats_in_config(
                     stats, mesh, mesh_b, ShotnoiseAmp, lm[1], lm[2],
                     rbinning)} :
         /\ stats' = res.stats
         /\ outcome' = res.outcome
         /\ ret' = res.ret
         /\ call' = [op |-> "compute_ylm_wgtd_2pt_stats_in_config",
                     binning |-> rbinning, ell |-> lm[1], m |-> lm[2],
                     reads |-> res.reads, twopt_3d |-> res.twopt_3d]
  /\ trace' = Append(trace, "compute_ylm_wgtd_2pt_stats_in_config")
  /\ UNCHANGED <<currTask, mesh, mesh_b, saved, gbytesMem,
               fields, catalogue>>

ComputeUncoupledShotnoiseFor3pcf ==
  /\ Len(trace) < MaxOpsStats
  /\ \E rbinning \in RBinnings :
       \E res \in {compute_uncoupled_shotnoise_for_3pcf(
                     stats, mesh, mesh_b, YlmA(stats.params),
                     YlmB(stats.params), ShotnoiseAmp, rbinning)} :
         /\ stats' = res.stats
         /\ outcome' = res.outcome
         /\ ret' = res.ret
         /\ call' = [op |-> "compute_uncoupled_shotnoise_for_3pcf",
                     binning |-> rbinning, reads |-> res.reads,
                     twopt_3d |-> res.twopt_3d]
  /\ trace' = Append(trace, "compute_uncoupled_shotnoise_for_3pcf")
  /\ UNCHANGED <<currTask, mesh, mesh_b, saved, gbytesMem,
               fields, catalogue>>

ComputeUncoupledShotnoiseForBispecPerBin ==
  /\ Len(trace) < MaxOpsStats
  /\ \E res \in {compute_uncoupled_shotnoise_for_bispec_per_bin(
                   stats, mesh, mesh_b, YlmA(stats.params),
                   YlmB(stats.params), ShotnoiseAmp, 1, 2)} :
       /\ stats' = res.stats
       /\ outcome' = res.outcome
       /\ ret' = res.ret
       /\ call' = [op |-> "compute_uncoupled_shotnoise_for_bispec_per_bin",
                   reads |-> res.reads, twopt_3d |-> res.twopt_3d]
  /\ trace' = Append(trace, "compute_uncoupled_shotnoise_for_bispec_per_bin")
  /\ UNCHANGED <<currTask, mesh, mesh_b, saved, gbytesMem,
               fields, catalogue>>

NextStats ==
  \/ ComputeYlmWgtd2ptStatsInFourier
  \/ ComputeYlmWgtd2ptStatsInConfig
  \/ ComputeUncoupledShotnoiseFor3pcf
  \/ ComputeUncoupledShotnoiseForBispecPerBin

SpecStats == InitStats /\ [][NextStats]_vars

BinnedOps ==
  {"compute_ylm_wgtd_2pt_stats_in_fourier",
   "compute_ylm_wgtd_2pt_stats_in_config",
   "compute_uncoupled_shotnoise_for_3pcf"}

\* The box size or grid resolution of some axis, or the cell count, of the
\* field differs from that of the FieldStats object.
GeometryDiffers(field) ==
  \/ \E a \in 1..3 : \/ field.params.boxsize[a] # stats.params.boxsize[a]
                     \/ field.params.ngrid[a] # stats.params.ngrid[a]
  \/ field.params.nmesh # stats.params.nmesh

\* C1: each of the four FieldStats operations, called with a field_a or
\* field_b whose box size or grid resolution on some axis, or cell count,
\* differs from the object's, raises InvalidData, reads no field sample,
\* returns nothing and leaves in the statistics arrays nothing but what
\* they held (resized to the bin count by the three binned operations).
C1_GeometryMismatchRaises ==
  [][(trace' # trace /\ (GeometryDiffers(mesh) \/ GeometryDiffers(mesh_b)))
     => /\ outcome' = "InvalidData"
        /\ call'.reads = 0
        /\ ret' = NoValue
        /\ \A name \in {"nmodes", "npairs", "k", "r", "sn", "pk", "xi"} :
             LET old == stats[name]
                 new == stats'[name]
             IN  /\ Len(new) = IF call'.op \in BinnedOps
                               THEN call'.binning.num_bins ELSE Len(old)
                 /\ \A i \in 1..Len(new) :
                      new[i] = IF i <= Len(old) THEN old[i]
                               ELSE IF name \in {"nmodes", "npairs"} THEN 0
                               ELSE SZero]_vars

\* The configuration-space statistic called with a field_b of another
\* grid resolution: InvalidData, and xi resized to the three bins.
C1_Witness ==
  /\ call.op = "compute_ylm_wgtd_2pt_stats_in_config"
  /\ mesh_b.params.ngrid # stats.params.ngrid
  /\ mesh.params = stats.params
  /\ outcome = "InvalidData"
  /\ call.reads = 0
  /\ stats.xi = <<SZero, SZero, SZero>>

\* C2: a statistics operation raises InvalidData whenever the volume of
\* field_a or of field_b differs from the object's.
C2_VolumeMismatchRaises ==
  (/\ trace # <<>>
   /\ \/ mesh.params.volume # stats.params.volume
      \/ mesh_b.params.volume # stats.params.volume)
  => outcome = "InvalidData"

\* The sum of a sequence of integers.
SumSeq(seq) ==
  LET S[n \in 0..Len(seq)] == IF n = 0 THEN 0 ELSE S[n - 1] + seq[n]
  IN  S[Len(seq)]

StrictlyIncreasing(edges) ==
  \A i \in 1..(Len(edges) - 1) : edges[i] < edges[i + 1]

AfterFourier ==
  /\ call.op = "compute_ylm_wgtd_2pt_stats_in_fourier"
  /\ outcome = "returned"

AfterConfig ==
  /\ call.op = "compute_ylm_wgtd_2pt_stats_in_config"
  /\ outcome = "returned"

\* The signed index vectors of the cells and what the statistics make of
\* them.
CellWavevectors ==
  {get_grid_wavevector(mesh.params, c[1], c[2], c[3]) :
     c \in Cells(stats.params)}

CellPosVectors ==
  {get_grid_pos_vector(mesh.params, c[1], c[2], c[3]) :
     c \in Cells(stats.params)}

\* The edges span the magnitudes on the grid: first edge <= smallest
\* magnitude, last edge >= largest magnitude.  A non-zero wavenumber is no
\* whole multiple of dk_sample / 2.
SpansWavenumbers(edges) ==
  \A kv \in CellWavevectors :
    LET twice == TwiceFineWavenumber(mesh.params, kv)
    IN  /\ edges[1] <= twice
        /\ edges[Len(edges)] >= IF twice = 0 THEN 0 ELSE twice + 1

SpansSeparations(edges) ==
  \A rv \in CellPosVectors :
    LET sep == Separation(mesh.params, rv)
        first == edges[1]
        last == edges[Len(edges)]
    IN  /\ first < 0 \/ first * first * sep[2] * sep[2] <= 16 * sep[1]
        /\ last >= 0 /\ last * last * sep[2] * sep[2] >= 16 * sep[1]

\* C5 as stated: with strictly increasing edges that span the magnitudes
\* on the grid, nmodes (resp. npairs) sums to nmesh over the bins.
C5_CountsSumToMesh ==
  /\ (AfterFourier /\ StrictlyIncreasing(call.binning.bin_edges)
        /\ SpansWavenumbers(call.binning.bin_edges))
     => SumSeq(stats.nmodes) = stats.params.nmesh
  /\ (AfterConfig /\ StrictlyIncreasing(call.binning.bin_edges)
        /\ SpansSeparations(call.binning.bin_edges))
     => SumSeq(stats.npairs) = stats.params.nmesh

\* The fine values i * d_sample of all cells lie below n_sample, above the
\* first edge and not above the last.
CoversFineIndices(fine, edges) ==
  \A i \in fine : /\ i < n_sample
                  /\ edges[1] < 2 * i
                  /\ 2 * i <= edges[Len(edges)]

\* C5, amended: with strictly increasing edges such that the fine value
\* i * d_sample, i = int(magnitude / d_sample + 0.5) < n_sample, of every
\* cell lies above the first edge and not above the last, nmodes (resp.
\* npairs) sums to nmesh over the bins.
C5_CountsSumToMeshOverFineRange ==
  /\ (AfterFourier /\ StrictlyIncreasing(call.binning.bin_edges)
        /\ CoversFineIndices({FineIndexK(mesh.params, kv) :
                                kv \in CellWavevectors},
                             call.binning.bin_edges))
     => SumSeq(stats.nmodes) = stats.params.nmesh
  /\ (AfterConfig /\ StrictlyIncreasing(call.binning.bin_edges)
        /\ CoversFineIndices({FineIndexR(mesh.params, rv) :
                                rv \in CellPosVectors},
                             call.binning.bin_edges))
     => SumSeq(stats.npairs) = stats.params.nmesh

\* The 2x2x2 grid in the box of side 2 after the Fourier-space statistic
\* with edges -1e-4, 3.1416, 5.4414: the zero mode and the three modes of
\* fine value 3.1416 in the first bin, the other four in the second.
C5_Witness ==
  /\ AfterFourier
  /\ mesh.params = stats.params
  /\ mesh_b.params = stats.params
  /\ stats.params.ngrid = <<2, 2, 2>>
  /\ stats.params.boxsize = <<2, 2, 2>>
  /\ call.binning.bin_edges = <<-2, 62832, 108828>>
  /\ stats.nmodes = <<4, 4>>

\* C6: after a binned statistic (Fourier, configuration space, 3PCF shot
\* noise) on compatible fields the call has returned; every bin without
\* modes or pairs has the bin centre for its coordinate and zero for its
\* statistics; every other bin is the mean over its count.
C6_EmptyBinsFallBack ==
  (/\ call.op \in BinnedOps
   /\ if_fields_compatible(stats, mesh, mesh_b))
  => /\ outcome = "returned"
     /\ \A ibin \in 1..call.binning.num_bins :
          LET fourier == call.op = "compute_ylm_wgtd_2pt_stats_in_fourier"
              count == IF fourier THEN stats.nmodes[ibin]
                       ELSE stats.npairs[ibin]
              coord == IF fourier THEN stats.k[ibin] ELSE stats.r[ibin]
              values == IF fourier THEN {stats.pk[ibin], stats.sn[ibin]}
                        ELSE {stats.xi[ibin]}
          IN  /\ count = 0 =>
                   /\ coord = [terms |->
                                 <<[centre |->
                                      call.binning.bin_centres[ibin]]>>,
                               div |-> 1, mul |-> <<1, 1>>]
                   /\ values = {SZero}
              /\ count # 0 =>
                   \A v \in values \cup {coord} :
                     v.div = count /\ Len(v.terms) = count

\* The 3PCF shot noise with edges -0.25, 0.5, 1.5, 5 on the 2x2x2 grid in
\* the box of side 2: the first bin holds the pair of separation 0, the
\* last bin none.
C6_Witness ==
  /\ call.op = "compute_uncoupled_shotnoise_for_3pcf"
  /\ mesh.params = stats.params
  /\ mesh_b.params = stats.params
  /\ outcome = "returned"
  /\ stats.params.ngrid = <<2, 2, 2>>
  /\ stats.params.boxsize = <<2, 2, 2>>
  /\ call.binning.bin_edges = <<-1, 2, 6, 20>>
  /\ stats.npairs = <<1, 7, 0>>
  /\ stats.xi[3] = SZero

\* floor(x + 1/2) for a magnitude x >= 0 in units of dk_sample, given
\* twice == floor(2 * x).
NearestFineIndex(twice) == twice - (twice \div 2)

\* The elements of a sequence.
Range(seq) == {seq[p] : p \in 1..Len(seq)}

\* C20: after compute_ylm_wgtd_2pt_stats_in_fourier with strictly
\* increasing edges, a mode is counted in bin b exactly if its fine index
\* f = floor(|k| / dk_sample + 1/2) is below the length of the fine table
\* and edge[b] < f * dk_sample <= edge[b + 1]; no mode is counted in two
\* bins; nmodes[b] is the number of those modes, and k[b], pk[b] and
\* sn[b] of a bin with modes are the sums over them divided by nmodes[b].
C20_FourierBinMembership ==
  (AfterFourier /\ StrictlyIncreasing(call.binning.bin_edges))
  => LET edges == call.binning.bin_edges
         bins == 1..call.binning.num_bins
         kvOf(c) == get_grid_wavevector(mesh.params, c[1], c[2], c[3])
         fine(c) == NearestFineIndex(
                      TwiceFineWavenumber(mesh.params, kvOf(c)))
         members(b) == {c \in Cells(stats.params) :
                          /\ fine(c) < n_sample
                          /\ edges[b] < 2 * fine(c)
                          /\ 2 * fine(c) <= edges[b + 1]}
         mode(c) == ModePower(stats, mesh, mesh_b, ShotnoiseAmp, c)
         ylm(c) == [ylm |-> <<call.ell, call.m, kvOf(c)>>]
         summed(b) == IF stats.nmodes[b] = 0 THEN {}
                      ELSE {t.magnitude : t \in Range(stats.k[b].terms)}
     IN  /\ \A b \in bins :
              /\ stats.nmodes[b] = Cardinality(members(b))
              /\ summed(b) = {kvOf(c) : c \in members(b)}
              /\ members(b) # {} =>
                   /\ stats.k[b].div = stats.nmodes[b]
                   /\ Len(stats.k[b].terms) = stats.nmodes[b]
                   /\ stats.pk[b].div = stats.nmodes[b]
                   /\ Len(stats.pk[b].terms) = stats.nmodes[b]
                   /\ Range(stats.pk[b].terms)
                        = {mode(c).pk_mode @@ ylm(c) : c \in members(b)}
                   /\ stats.sn[b].div = stats.nmodes[b]
                   /\ Len(stats.sn[b].terms) = stats.nmodes[b]
                   /\ Range(stats.sn[b].terms)
                        = {mode(c).sn_mode @@ ylm(c) : c \in members(b)}
         /\ \A b1 \in bins : \A b2 \in bins :
              b1 # b2 => summed(b1) \cap summed(b2) = {}

\* The 2x2x2 grid in the box of side 1 after the Fourier-space statistic
\* with edges 0, 3.1416, 6.5: the zero mode is not above the first edge,
\* the three modes of |k| = 2 pi are in the second bin, the three of
\* |k| = 2 sqrt(2) pi are above the last edge and the fine index of the
\* last mode is beyond the fine table.
C20_Witness ==
  /\ AfterFourier
  /\ mesh.params = stats.params
  /\ mesh_b.params = stats.params
  /\ stats.params.ngrid = <<2, 2, 2>>
  /\ stats.params.boxsize = <<1, 1, 1>>
  /\ call.binning.bin_edges = <<0, 62832, 130000>>
  /\ stats.nmodes = <<0, 3>>
  /\ stats.k[2].div = 3

\* The divisors win_pk and win_sn of one mode are one factor: the product
\* of the two fields' window responses when the FieldStats object
\* interlaces, the aliasing scalar of its assignment scheme otherwise.
OneCorrectionFactor(win_pk, win_sn) ==
  /\ win_pk = win_sn
  /\ IF stats.params.interlace = "true"
     THEN /\ win_pk.kind = "window"
          /\ win_pk.a = mesh.params.assignment
          /\ win_pk.b = mesh_b.params.assignment
     ELSE /\ win_pk.kind = "aliasing"
          /\ win_pk.assignment = stats.params.assignment

\* C22: in the default build, in each of the four FieldStats operations
\* and for every mode, the cross power and the shot-noise term are divided
\* by one and the same factor: the product of the two fields' window
\* responses with interlacing, the aliasing scalar without, where the
\* window is not used.
C22_OneCorrectionFactor ==
  (call.op # "none" /\ outcome = "returned")
  => IF call.op = "compute_ylm_wgtd_2pt_stats_in_fourier"
     THEN \A b \in DOMAIN stats.pk :
            /\ Len(stats.pk[b].terms) = Len(stats.sn[b].terms)
            /\ \A p \in DOMAIN stats.pk[b].terms :
                 OneCorrectionFactor(stats.pk[b].terms[p].win,
                                     stats.sn[b].terms[p].win)
     ELSE /\ Len(call.twopt_3d) = stats.params.nmesh
          /\ \A t \in DOMAIN call.twopt_3d :
               OneCorrectionFactor(call.twopt_3d[t].pk_mode.win,
                                   call.twopt_3d[t].sn_mode.win)

\* The configuration-space statistic of a 2x2x2 grid without interlacing:
\* every one of the eight modes is divided by the aliasing scalar.
C22_Witness ==
  /\ call.op = "compute_ylm_wgtd_2pt_stats_in_config"
  /\ outcome = "returned"
  /\ stats.params.interlace = "false"
  /\ stats.params.assignment = "cic"
  /\ Len(call.twopt_3d) = 8
  /\ call.twopt_3d[8].pk_mode.win.kind = "aliasing"
  /\ call.twopt_3d[8].sn_mode.win = call.twopt_3d[8].pk_mode.win

\* C28: no operation of FieldStats changes either MeshField handed to it,
\* neither the samples of its two buffers nor its parameters, whether the
\* two are one object or two and whether the call returns or ends in the
\* consistency error.
C28_StatisticsLeaveFields ==
  [][trace' # trace => (mesh' = mesh /\ mesh_b' = mesh_b)]_vars

\* One interlaced field of a 2x2x2 grid handed as both field_a and
\* field_b, its box other than that of the FieldStats object, after the
\* configuration-space statistic ended in the consistency error.
C28_Witness ==
  /\ call.op = "compute_ylm_wgtd_2pt_stats_in_config"
  /\ outcome = "InvalidData"
  /\ mesh_b = mesh
  /\ mesh.params.ngrid = <<2, 2, 2>>
  /\ mesh.params.interlace = "true"
  /\ mesh.params.boxsize # stats.params.boxsize
  /\ mesh.field = StatsField(mesh.params, 1).field
  /\ mesh.field_s = StatsField(mesh.params, 1).field_s


(***************************************************************************)
(* ParticleCatalogue (include/particles.hpp)                               *)
(*                                                                         *)
(* A position component is the rational <<numerator, denominator>>; nz,    *)
(* ws, wc and w are integers.  An operation yields the set of the results  *)
(* the call can have: one result,                                          *)
(* or, where it reads or writes through the null particle array, every     *)
(* result of the undefined behaviour that is modelled.                     *)
(***************************************************************************)

QAdd(x, y) == QNorm(<<x[1] * y[2] + y[1] * x[2], x[2] * y[2]>>)

QSub(x, y) == QNorm(<<x[1] * y[2] - y[1] * x[2], x[2] * y[2]>>)

QLess(x, y) == x[1] * y[2] < y[1] * x[2]

\* pdata = NULL.
NullPdata == <<>>

\* ParticleCatalogue::ParticleCatalogue().
ParticleCatalogue ==
  [pdata |-> NullPdata, ntotal |-> 0, wtotal |-> 0,
   pos_min |-> <<<<0, 1>>, <<0, 1>>, <<0, 1>>>>,
   pos_max |-> <<<<0, 1>>, <<0, 1>>, <<0, 1>>>>]

\* sizeof(struct ParticleData): seven doubles.
SizeofParticleData == 56

\* ParticleCatalogue::_initialise_particles(num): the catalogue and the
\* memory counter afterwards.  The array it replaces is deleted and its
\* size stays in the counter.
initialise_particles(c, num, counter) ==
  IF num <= 0 THEN [catalogue |-> c, gbytesMem |-> counter]
  ELSE [catalogue |->
          [c EXCEPT !.ntotal = num,
                    !.pdata = [pid \in 1..num |->
                                [pos |-> <<<<0, 1>>, <<0, 1>>, <<0, 1>>>>,
                                 nz |-> 0, ws |-> 0, wc |-> 0, w |-> 0]]],
        gbytesMem |-> counter + num * SizeofParticleData]

\* ParticleCatalogue::finalise_particles.  ntotal stays as it is.
finalise_particles(c, counter) ==
  IF c.pdata # NullPdata
  THEN [catalogue |-> [c EXCEPT !.pdata = NullPdata],
        gbytesMem |-> counter - c.ntotal * SizeofParticleData]
  ELSE [catalogue |-> c, gbytesMem |-> counter]

\* The one result of a call that returned, and of one that threw.
Returned(c, value) ==
  {[catalogue |-> c, outcome |-> "returned", ret |-> value,
    nullaccess |-> FALSE]}

Raised(c, exception) ==
  {[catalogue |-> c, outcome |-> exception, ret |-> NoValue,
    nullaccess |-> FALSE]}

\* Values an indeterminate read yields.
GarbageValues == {0, 7}

\* The results of a call that reads or writes through pdata = NULL: the
\* process is killed, or the call goes on with indeterminate values and
\* leaves the catalogue as one of cs.
Undefined(c, cs) ==
  {[catalogue |-> c, outcome |-> "SIGSEGV", ret |-> NoValue,
    nullaccess |-> TRUE]}
    \cup {[catalogue |-> d, outcome |-> "returned", ret |-> g,
           nullaccess |-> TRUE] : d \in cs, g \in GarbageValues}

\* The throw of every operation that tests pdata: only task 0 throws.
NullPdataThrows(c, task) == c.pdata = NullPdata /\ task = 0

\* The sum of term(pid) over the particles.
SumOverParticles(c, term(_)) ==
  LET S[n \in 0..c.ntotal] ==
        IF n = 0 THEN 0 ELSE S[n - 1] + term(c.pdata[n])
  IN  S[c.ntotal]

\* _calc_weighted_total with the test of pdata on every task.
calc_weighted_total_throwing_on_every_task(c, task) ==
  IF c.pdata = NullPdata THEN Raised(c, "InvalidData")
  ELSE Returned([c EXCEPT !.wtotal = SumOverParticles(c, LAMBDA pt : pt.ws)],
                NoValue)

\* ParticleCatalogue::_calc_weighted_total.
calc_weighted_total(c, task) ==
  IF NullPdataThrows(c, task) THEN Raised(c, "InvalidData")
  ELSE IF c.pdata = NullPdata /\ c.ntotal > 0
  THEN Undefined(c, {[c EXCEPT !.wtotal = g] : g \in GarbageValues})
  ELSE Returned([c EXCEPT !.wtotal = SumOverParticles(c, LAMBDA pt : pt.ws)],
                NoValue)

\* The least (greatest) component of axis a over the particles, starting
\* from the first particle.
PosExtreme(pdata, a, greatest) ==
  LET E[n \in 1..Len(pdata)] ==
        IF n = 1 THEN pdata[1].pos[a]
        ELSE IF greatest
        THEN (IF QLess(E[n - 1], pdata[n].pos[a]) THEN pdata[n].pos[a]
              ELSE E[n - 1])
        ELSE (IF QLess(pdata[n].pos[a], E[n - 1]) THEN pdata[n].pos[a]
              ELSE E[n - 1])
  IN  E[Len(pdata)]

\* The catalogue with extents taken from indeterminate reads.
GarbageExtents(c) ==
  {[c EXCEPT !.pos_min = <<<<g, 1>>, <<g, 1>>, <<g, 1>>>>,
             !.pos_max = <<<<g, 1>>, <<g, 1>>, <<g, 1>>>>]
     : g \in GarbageValues}

\* ParticleCatalogue::_calc_pos_min_and_max.  pdata[0] is read whatever
\* ntotal is.
calc_pos_min_and_max(c, task) ==
  IF NullPdataThrows(c, task) THEN Raised(c, "InvalidData")
  ELSE IF c.pdata = NullPdata THEN Undefined(c, GarbageExtents(c))
  ELSE Returned([c EXCEPT
                  !.pos_min = [a \in 1..3 |-> PosExtreme(c.pdata, a, FALSE)],
                  !.pos_max = [a \in 1..3 |-> PosExtreme(c.pdata, a, TRUE)]],
                NoValue)

\* Every particle moved by dvec.
Moved(c, dvec) ==
  [c EXCEPT !.pdata = [pid \in DOMAIN c.pdata |->
                        [c.pdata[pid] EXCEPT
                          !.pos = [a \in 1..3 |-> QAdd(@[a], dvec[a])]]]]

\* ParticleCatalogue::offset_coords(dpos).
offset_coords(c, dpos, task) ==
  IF NullPdataThrows(c, task) THEN Raised(c, "InvalidData")
  ELSE IF c.pdata = NullPdata /\ c.ntotal > 0
  THEN Undefined(c, GarbageExtents(c))
  ELSE calc_pos_min_and_max(
         Moved(c, [a \in 1..3 |-> <<-dpos[a][1], dpos[a][2]>>]), task)

\* ParticleCatalogue::offset_coords_for_centring(boxsize).
offset_coords_for_centring(c, boxsize, task) ==
  IF NullPdataThrows(c, task) THEN Raised(c, "InvalidData")
  ELSE IF c.pdata = NullPdata THEN Undefined(c, GarbageExtents(c))
  ELSE LET e == CHOOSE r \in calc_pos_min_and_max(c, task) : TRUE
           dvec == [a \in 1..3 |->
                     QMul(QSub(boxsize[a],
                               QAdd(e.catalogue.pos_min[a],
                                    e.catalogue.pos_max[a])),
                          <<1, 2>>)]
       IN  calc_pos_min_and_max(Moved(e.catalogue, dvec), task)

\* ParticleCatalogue::offset_coords_for_periodicity(boxsize): pdata is not
\* tested before the loop over the particles.
offset_coords_for_periodicity(c, boxsize, task) ==
  IF c.pdata = NullPdata /\ c.ntotal > 0
  THEN Undefined(c, GarbageExtents(c))
  ELSE calc_pos_min_and_max(
         [c EXCEPT !.pdata =
           [pid \in DOMAIN c.pdata |->
             [c.pdata[pid] EXCEPT
               !.pos = [a \in 1..3 |->
                         IF ~QLess(@[a], boxsize[a])
                         THEN QSub(@[a], boxsize[a])
                         ELSE IF QLess(@[a], <<0, 1>>)
                         THEN QAdd(@[a], boxsize[a])
                         ELSE @[a]]]]], task)

\* ParticleCatalogue::_calc_powspec_shotnoise.
calc_powspec_shotnoise(c, task) ==
  IF NullPdataThrows(c, task) THEN Raised(c, "InvalidData")
  ELSE IF c.pdata = NullPdata /\ c.ntotal > 0 THEN Undefined(c, {c})
  ELSE Returned(c, <<SumOverParticles(
                       c, LAMBDA pt : pt.ws * pt.ws * pt.wc * pt.wc), 1>>)

\* 1. / divisor: the reciprocal, or the infinity IEEE arithmetic yields
\* for the divisor zero.
Reciprocal(divisor) ==
  IF divisor = 0 THEN <<"inf">>
  ELSE IF divisor < 0 THEN <<-1, -divisor>> ELSE <<1, divisor>>

\* The end of the two normalisations: zero throws on task 0 only.
NormalisationOf(c, divisor, task) ==
  IF divisor = 0 /\ task = 0 THEN Raised(c, "InvalidData")
  ELSE Returned(c, Reciprocal(divisor))

\* ParticleCatalogue::_calc_powspec_normalisation.
calc_powspec_normalisation(c, task) ==
  IF NullPdataThrows(c, task) THEN Raised(c, "InvalidData")
  ELSE IF c.pdata = NullPdata /\ c.ntotal > 0 THEN Undefined(c, {c})
  ELSE NormalisationOf(
         c, SumOverParticles(c, LAMBDA pt : pt.nz * pt.ws * pt.wc * pt.wc),
         task)

\* ParticleCatalogue::_calc_bispec_normalisation.
calc_bispec_normalisation(c, task) ==
  IF NullPdataThrows(c, task) THEN Raised(c, "InvalidData")
  ELSE IF c.pdata = NullPdata /\ c.ntotal > 0 THEN Undefined(c, {c})
  ELSE NormalisationOf(
         c, SumOverParticles(
              c, LAMBDA pt : pt.nz * pt.nz * pt.ws * pt.wc * pt.wc * pt.wc),
         task)

\* ParticleCatalogue::read_particle_data for rows of equal-sized vectors:
\* the results, each with the memory counter afterwards.  An empty input
\* leaves the particle array as it was.
read_particle_data(c, rows, task, counter) ==
  LET init == initialise_particles(c, Len(rows), counter)
      filled == [init.catalogue EXCEPT
                  !.pdata = IF Len(rows) = 0 THEN @
                            ELSE [pid \in 1..Len(rows) |->
                                   [pos |-> rows[pid].pos,
                                    nz |-> rows[pid].nz,
                                    ws |-> rows[pid].ws,
                                    wc |-> rows[pid].wc,
                                    w |-> rows[pid].ws * rows[pid].wc]]]
      ended(r, status, accessed) ==
        [catalogue |-> r.catalogue, outcome |-> r.outcome, ret |-> status,
         nullaccess |-> accessed, gbytesMem |-> init.gbytesMem]
  IN  UNION {IF wt.outcome # "returned"
             THEN {ended(wt, NoValue, wt.nullaccess)}
             ELSE {ended(ex, IF ex.outcome = "returned" THEN 0 ELSE NoValue,
                         ex.nullaccess \/ wt.nullaccess)
                     : ex \in calc_pos_min_and_max(wt.catalogue, task)}
             : wt \in calc_weighted_total(filled, task)}

(***************************************************************************)
(* MeshField operations that take a ParticleCatalogue                      *)
(***************************************************************************)

\* The particles as the mesh assignment reads them: per axis the integer
\* q with loc_grid = ngrid * pos / boxsize = q / PosDen.
GridCoordinate(params, pos, a) ==
  QMul(pos[a], <<PosDen * params.ngrid[a], params.boxsize[a]>>)

OnPosGrid(params, c) ==
  \A pid \in DOMAIN c.pdata : \A a \in 1..3 :
    GridCoordinate(params, c.pdata[pid].pos, a)[2] = 1

MeshParticles(params, c) ==
  [pid \in 1..c.ntotal |->
    [pos |-> [a \in 1..3 |-> GridCoordinate(params, c.pdata[pid].pos, a)[1]],
     w |-> c.pdata[pid].w]]

\* compute_unweighted_field giving every particle the unit weight in the
\* catalogue itself.
compute_unweighted_field_overwriting_weights(m, c, task) ==
  LET res == assign_weighted_field_to_mesh(
               m, MeshParticles(m.params, c),
               [pid \in 1..c.ntotal |-> CInt(1, 0)], task)
  IN  [mesh |-> res.mesh, outcome |-> res.outcome,
       catalogue |-> [c EXCEPT !.pdata = [pid \in DOMAIN @ |->
                                            [@[pid] EXCEPT !.w = 1]]]]

\* MeshField::compute_unweighted_field: the mesh, how the call ended and
\* the catalogue afterwards.
compute_unweighted_field(m, c, task) ==
  LET res == assign_weighted_field_to_mesh(
               m, MeshParticles(m.params, c),
               [pid \in 1..c.ntotal |-> CInt(1, 0)], task)
  IN  [mesh |-> res.mesh, outcome |-> res.outcome, catalogue |-> c]

\* MeshField::compute_unweighted_field_fluctuations_insitu: nbar =
\* ntotal / vol is subtracted from the real part of every sample.
compute_unweighted_field_fluctuations_insitu(m, c, task) ==
  LET res == compute_unweighted_field(m, c, task)
  IN  IF res.outcome # "returned" THEN res
      ELSE [res EXCEPT
             !.mesh.field = [gid \in DOMAIN @ |->
                              <<RSub(@[gid][1], RRat(c.ntotal, m.vol)),
                                @[gid][2]>>]]

\* The single-catalogue MeshField::compute_ylm_wgtd_field, alpha being the
\* rational alpha[1] / alpha[2]: the catalogue is assigned with the weights
\* ylm * w and every sample of this->field is multiplied by alpha.
compute_ylm_wgtd_field_of_one_catalogue(m, particles, ylm, alpha, task) ==
  LET res == assign_weighted_field_to_mesh(
               m, particles, YlmWeights(particles, ylm), task)
  IN  IF res.outcome # "returned" THEN res
      ELSE [res EXCEPT !.mesh.field = ScaleBuffer(@, alpha[1], alpha[2])]

\* The single-catalogue MeshField::compute_ylm_wgtd_quad_field: the weights
\* are conj(ylm) * w^2 and every sample of this->field is multiplied by
\* alpha^2.
compute_ylm_wgtd_quad_field_of_one_catalogue(m, particles, ylm, alpha, task) ==
  LET res == assign_weighted_field_to_mesh(
               m, particles, YlmQuadWeights(particles, ylm), task)
  IN  IF res.outcome # "returned" THEN res
      ELSE [res EXCEPT !.mesh.field = ScaleBuffer(@, alpha[1] * alpha[1],
                                                  alpha[2] * alpha[2])]

\* std::pow(x, order) for an order of at least one.
RPow(x, order) ==
  LET P[n \in 1..order] == IF n = 1 THEN x ELSE RMul(P[n - 1], x)
  IN  P[order]

\* MeshField::calc_grid_based_powlaw_norm: as above and the value
\* returned, 1. / vol_int with vol_int the sum of the order-th powers
\* of the real parts times vol_cell.  vol_int is not tested.
calc_grid_based_powlaw_norm(m, c, order, task) ==
  LET res == assign_weighted_field_to_mesh(
               m, MeshParticles(m.params, c),
               [pid \in 1..c.ntotal |-> CInt(c.pdata[pid].w, 0)], task)
      field == res.mesh.field
      V[n \in 0..m.params.nmesh] ==
        IF n = 0 THEN RZero ELSE RAdd(V[n - 1], RPow(field[n - 1][1], order))
      vol_int == RScale(V[m.params.nmesh], m.vol, m.params.nmesh)
  IN  IF res.outcome # "returned"
      THEN [mesh |-> res.mesh, outcome |-> res.outcome, catalogue |-> c,
            ret |-> NoValue, vol_int |-> RZero]
      ELSE [mesh |-> res.mesh, outcome |-> "returned", catalogue |-> c,
            ret |-> IF vol_int = RZero THEN <<"inf">>
                    ELSE <<"reciprocal of", vol_int>>,
            vol_int |-> vol_int]

(***************************************************************************)
(* Specification SpecLife: MeshField objects are constructed, operated on, *)
(* finalised and destroyed, and the memory counter follows.                *)
(***************************************************************************)

\* At most MaxFields MeshField objects are live at a time.
MaxFields == 2

\* At most MaxOpsLife operations are performed in a run.
MaxOpsLife == 4

\* The configurations a MeshField is constructed from: box sizes that are
\* positive on every axis, and box sizes with a zero or a negative axis.
LifeBoxes == {<<1, 1, 2>>, <<0, 1, 2>>, <<-1, 1, 2>>}

LifeParams ==
  {ParameterSet(box, g, box[1] * box[2] * box[3], sch[1], sch[2]) :
     box \in LifeBoxes, g \in {<<1, 1, 1>>, <<2, 1, 1>>},
     sch \in {<<"ngp", "false">>, <<"cic", "true">>}}
    \cup {ParameterSet(<<1, 1, 2>>, <<1, 1, 1>>, 2, "nnb", "true")}

\* Every box size of the configuration is positive.
PositiveBox(params) == \A a \in 1..3 : params.boxsize[a] > 0

InitLife ==
  /\ currTask = 0
  /\ mesh = NoMesh
  /\ mesh_b = NoMesh
  /\ stats = NoStats
  /\ call = NoCall
  /\ outcome = "none"
  /\ ret = NoValue
  /\ trace = <<>>
  /\ gbytesMem \in {0, 56}
  /\ saved = gbytesMem
  /\ fields = <<>>
  /\ catalogue = NoCatalogue

\* MeshField::MeshField(params): the buffers are allocated and zero-filled
\* and their sizes added to the counter.  Nothing in the constructor tests
\* the configuration.
ConstructMeshField ==
  /\ Len(trace) < MaxOpsLife
  /\ Len(fields) < MaxFields
  /\ \E ps \in LifeParams :
       /\ fields' = Append(fields, MeshField(ps))
       /\ gbytesMem' = gbytesMem + AllocatedBytes(ps)
       /\ call' = [op |-> "MeshField", params |-> ps]
  /\ outcome' = "returned"
  /\ trace' = Append(trace, "MeshField")
  /\ UNCHANGED <<currTask, mesh, mesh_b, stats, ret, saved, catalogue>>

FinaliseDensityField ==
  /\ Len(trace) < MaxOpsLife
  /\ \E i \in 1..Len(fields) :
       \E res \in {finalise_density_field(fields[i], gbytesMem)} :
         /\ fields' = [fields EXCEPT ![i] = res.mesh]
         /\ gbytesMem' = res.gbytesMem
         /\ call' = [op |-> "finalise_density_field", field |-> i]
  /\ outcome' = "returned"
  /\ trace' = Append(trace, "finalise_density_field")
  /\ UNCHANGED <<currTask, mesh, mesh_b, stats, ret, saved, catalogue>>

\* MeshField::~MeshField: finalise_density_field, and the object is gone.
DestroyMeshField ==
  /\ Len(trace) < MaxOpsLife
  /\ \E i \in 1..Len(fields) :
       /\ fields' = [j \in 1..(Len(fields) - 1) |->
                      IF j < i THEN fields[j] ELSE fields[j + 1]]
       /\ gbytesMem' = finalise_density_field(fields[i], gbytesMem).gbytesMem
       /\ call' = [op |-> "~MeshField", field |-> i]
  /\ outcome' = "returned"
  /\ trace' = Append(trace, "~MeshField")
  /\ UNCHANGED <<currTask, mesh, mesh_b, stats, ret, saved, catalogue>>

\* The counter after the temporary field_rand of a two-catalogue
\* construction was constructed and, at the end of its scope, destroyed.
TemporaryFieldCounter(params, counter) ==
  finalise_density_field(MeshField(params),
                         counter + AllocatedBytes(params)).gbytesMem

\* The catalogues of the two-catalogue construction of this
\* specification.
LifeData ==
  [particles |-> <<[pos |-> <<0, 0, 0>>, w |-> 1]>>, ylm |-> <<CInt(1, 0)>>]

LifeRand ==
  [particles |-> <<[pos |-> <<1, 0, 0>>, w |-> 2]>>, ylm |-> <<CInt(1, -1)>>]

\* compute_ylm_wgtd_field on a live field with allocated buffers.  The
\* temporary field is constructed only when the assignment of the data
\* catalogue has returned.
LifeComputeYlmWgtdField ==
  /\ Len(trace) < MaxOpsLife
  /\ \E i \in 1..Len(fields) :
       /\ fields[i].field # NullBuffer
       /\ PositiveBox(fields[i].params)
       /\ \E res \in {compute_ylm_wgtd_field(
                        fields[i], LifeData.particles, LifeRand.particles,
                        LifeData.ylm, LifeRand.ylm, <<3, 2>>, currTask)} :
            /\ fields' = [fields EXCEPT ![i] = res.mesh]
            /\ outcome' = res.outcome
            /\ gbytesMem' =
                 IF assign_weighted_field_to_mesh(
                      fields[i], LifeData.particles,
                      YlmWeights(LifeData.particles, LifeData.ylm),
                      currTask).outcome # "returned"
                 THEN gbytesMem
                 ELSE TemporaryFieldCounter(fields[i].params, gbytesMem)
       /\ call' = [op |-> "compute_ylm_wgtd_field", field |-> i]
  /\ trace' = Append(trace, "compute_ylm_wgtd_field")
  /\ UNCHANGED <<currTask, mesh, mesh_b, stats, ret, saved, catalogue>>

NextLife ==
  \/ ConstructMeshField
  \/ FinaliseDensityField
  \/ DestroyMeshField
  \/ LifeComputeYlmWgtdField

SpecLife == InitLife /\ [][NextLife]_vars

\* C11: no MeshField with a non-positive grid resolution or box size on
\* some axis comes into existence: the construction fails with a
\* configuration error.
C11_NonPositiveGeometryRejected ==
  /\ \A i \in 1..Len(fields) :
       \A a \in 1..3 : /\ fields[i].params.ngrid[a] > 0
                       /\ fields[i].params.boxsize[a] > 0
  /\ (call.op = "MeshField" /\ ~PositiveBox(call.params))
       => outcome = "InvalidParameter"

\* The sum of LiveBytes over the live fields.
TotalLiveBytes ==
  LET S[n \in 0..Len(fields)] ==
        IF n = 0 THEN 0 ELSE S[n - 1] + LiveBytes(fields[n])
  IN  S[Len(fields)]

\* C14: the memory counter equals its initial value plus the sizes of the
\* buffers the live fields hold (one buffer of 16 * nmesh bytes without
\* interlacing, two with, none once finalise_density_field has run), and
\* is back at its initial value when no field is live.
C14_CounterTracksLiveBuffers ==
  /\ gbytesMem = saved + TotalLiveBytes
  /\ \A i \in 1..Len(fields) :
       LiveBytes(fields[i]) \in {0, 16 * fields[i].params.nmesh
                                      * (IF fields[i].params.interlace
                                            = "true" THEN 2 ELSE 1)}
  /\ fields = <<>> => gbytesMem = saved

\* A field without interlacing was finalised twice and destroyed after a
\* two-catalogue construction on it, and no field is left.
C14_Witness ==
  /\ Len(trace) = 4
  /\ trace[2] = "compute_ylm_wgtd_field"
  /\ trace[3] = "finalise_density_field"
  /\ trace[4] = "~MeshField"
  /\ fields = <<>>
  /\ gbytesMem = saved
  /\ saved = 56


(***************************************************************************)
(* Specification SpecCatalogue: a catalogue from its construction on, read *)
(* into, finalised, operated on and handed to the operations of one mesh.  *)
(***************************************************************************)

\* The operations of one run.
MaxOpsCat == 3

CatKernels == {"cic", "nnb"}

\* Kernel and interlacing of the meshes tried.
CatSchemes == {<<a, "false">> : a \in CatKernels} \cup {<<"cic", "true">>}

CatParams ==
  {ParameterSet(<<1, 1, 2>>, <<2, 1, 1>>, 2, sch[1], sch[2]) :
     sch \in CatSchemes}

\* The box as the catalogue operations take it.
BoxOf(params) == [a \in 1..3 |-> <<params.boxsize[a], 1>>]

\* One row of the vectors handed to read_particle_data.
Row(x, y, z, nz, ws, wc) ==
  [pos |-> <<x, y, z>>, nz |-> nz, ws |-> ws, wc |-> wc]

\* The inputs read: none; one particle on a cell; one of zero density;
\* two of which one is outside the box, on the last axis by a whole box.
CatRows ==
  {<<>>,
   <<Row(<<0, 1>>, <<0, 1>>, <<0, 1>>, 1, 1, 2)>>,
   <<Row(<<1, 2>>, <<0, 1>>, <<0, 1>>, 0, 1, 1)>>,
   <<Row(<<1, 2>>, <<0, 1>>, <<0, 1>>, 1, 2, 1),
     Row(<<3, 2>>, <<-1, 1>>, <<4, 1>>, 1, 1, 1)>>}

\* The shift tried by offset_coords.
CatOffsets == {<<<<1, 2>>, <<0, 1>>, <<0, 1>>>>}

\* The random catalogue of the two-catalogue operations.
CatRand ==
  [ParticleCatalogue EXCEPT
    !.ntotal = 1, !.wtotal = 1,
    !.pdata = <<[pos |-> <<<<0, 1>>, <<0, 1>>, <<0, 1>>>>,
                 nz |-> 1, ws |-> 1, wc |-> 1, w |-> 1]>>]

\* The harmonic value of every particle in those operations.
CatYlm(c) == [pid \in 1..c.ntotal |-> CInt(1, -1)]

\* The orders tried by calc_grid_based_powlaw_norm.
PowlawOrders == {2, 3}

InitCatalogue ==
  /\ currTask \in 0..MaxTask
  /\ mesh \in {MeshField(ps) : ps \in CatParams}
  /\ mesh_b = NoMesh
  /\ stats = NoStats
  /\ call = NoCall
  /\ outcome = "none"
  /\ ret = NoValue
  /\ trace = <<>>
  /\ saved = NullBuffer
  /\ gbytesMem = LiveBytes(mesh)
  /\ fields = <<>>
  /\ catalogue = ParticleCatalogue

\* The operations of the mesh that take a catalogue.
MeshOps ==
  {"assign_weighted_field_to_mesh", "compute_unweighted_field",
   "compute_unweighted_field_fluctuations_insitu", "compute_ylm_wgtd_field",
   "compute_ylm_wgtd_quad_field", "compute_ylm_wgtd_field of one catalogue",
   "compute_ylm_wgtd_quad_field of one catalogue",
   "calc_grid_based_powlaw_norm"}

\* A run goes on until its bound, until the process is killed, or until
\* the catalogue has been handed to an operation of the mesh.
CatRunning ==
  /\ Len(trace) < MaxOpsCat
  /\ outcome # "SIGSEGV"
  /\ call.op \notin MeshOps

\* One call of an operation of the catalogue with the given results.
CatalogueCall(op, results, zero) ==
  /\ CatRunning
  /\ \E res \in results :
       /\ catalogue' = res.catalogue
       /\ outcome' = res.outcome
       /\ ret' = res.ret
       /\ call' = [op |-> op, null |-> catalogue.pdata = NullPdata,
                   nullaccess |-> res.nullaccess, zero_divisor |-> zero]
  /\ trace' = Append(trace, op)
  /\ UNCHANGED <<currTask, mesh, mesh_b, stats, saved, gbytesMem, fields>>

ReadParticleData ==
  /\ CatRunning
  /\ \E rows \in CatRows :
       \E res \in read_particle_data(catalogue, rows, currTask, gbytesMem) :
         /\ catalogue' = res.catalogue
         /\ outcome' = res.outcome
         /\ ret' = res.ret
         /\ gbytesMem' = res.gbytesMem
         /\ call' = [op |-> "read_particle_data", rows |-> rows]
  /\ trace' = Append(trace, "read_particle_data")
  /\ UNCHANGED <<currTask, mesh, mesh_b, stats, saved, fields>>

FinaliseParticles ==
  /\ CatRunning
  /\ \E res \in {finalise_particles(catalogue, gbytesMem)} :
       /\ catalogue' = res.catalogue
       /\ gbytesMem' = res.gbytesMem
  /\ outcome' = "returned"
  /\ ret' = NoValue
  /\ call' = [op |-> "finalise_particles"]
  /\ trace' = Append(trace, "finalise_particles")
  /\ UNCHANGED <<currTask, mesh, mesh_b, stats, saved, fields>>

CalcWeightedTotal ==
  CatalogueCall("_calc_weighted_total",
                calc_weighted_total(catalogue, currTask), FALSE)

CalcPosMinAndMax ==
  CatalogueCall("_calc_pos_min_and_max",
                calc_pos_min_and_max(catalogue, currTask), FALSE)

OffsetCoords ==
  \E dpos \in CatOffsets :
    CatalogueCall("offset_coords",
                  offset_coords(catalogue, dpos, currTask), FALSE)

OffsetCoordsForCentring ==
  CatalogueCall("offset_coords_for_centring",
                offset_coords_for_centring(catalogue, BoxOf(mesh.params),
                                           currTask), FALSE)

OffsetCoordsForPeriodicity ==
  CatalogueCall("offset_coords_for_periodicity",
                offset_coords_for_periodicity(catalogue, BoxOf(mesh.params),
                                              currTask), FALSE)

CalcPowspecShotnoise ==
  CatalogueCall("_calc_powspec_shotnoise",
                calc_powspec_shotnoise(catalogue, currTask), FALSE)

\* Whether the divisor of a normalisation of the catalogue is zero, where
\* the particle array can be read.
ZeroDivisor(c, term(_)) ==
  (c.pdata # NullPdata \/ c.ntotal = 0) /\ SumOverParticles(c, term) = 0

CalcPowspecNormalisation ==
  CatalogueCall("_calc_powspec_normalisation",
                calc_powspec_normalisation(catalogue, currTask),
                ZeroDivisor(catalogue,
                            LAMBDA pt : pt.nz * pt.ws * pt.wc * pt.wc))

CalcBispecNormalisation ==
  CatalogueCall("_calc_bispec_normalisation",
                calc_bispec_normalisation(catalogue, currTask),
                ZeroDivisor(catalogue,
                            LAMBDA pt : pt.nz * pt.nz * pt.ws
                                          * pt.wc * pt.wc * pt.wc))

\* The mesh operations are called with a catalogue whose particles can
\* be read and lie on the positions the mesh model resolves.
MeshCallable ==
  /\ CatRunning
  /\ catalogue.pdata # NullPdata \/ catalogue.ntotal = 0
  /\ OnPosGrid(mesh.params, catalogue)

\* One call of a mesh operation with the given result.
MeshCall(op, res, value, zero) ==
  /\ MeshCallable
  /\ mesh' = res.mesh
  /\ outcome' = res.outcome
  /\ catalogue' = res.catalogue
  /\ ret' = value
  /\ call' = [op |-> op, null |-> catalogue.pdata = NullPdata,
              nullaccess |-> FALSE, zero_divisor |-> zero]
  /\ trace' = Append(trace, op)
  /\ UNCHANGED <<currTask, mesh_b, stats, saved, gbytesMem, fields>>

\* The result of an operation that takes the particles by reference and
\* has no statement that writes to them.
WithCatalogue(res, c) ==
  [mesh |-> res.mesh, outcome |-> res.outcome, catalogue |-> c]

CatAssignWeightedFieldToMesh ==
  /\ MeshCallable
  /\ \E res \in {assign_weighted_field_to_mesh(
                   mesh, MeshParticles(mesh.params, catalogue),
                   CatYlm(catalogue), currTask)} :
       MeshCall("assign_weighted_field_to_mesh",
                WithCatalogue(res, catalogue), NoValue, FALSE)

ComputeUnweightedField ==
  /\ MeshCallable
  /\ \E res \in {compute_unweighted_field(mesh, catalogue, currTask)} :
       MeshCall("compute_unweighted_field", res, NoValue, FALSE)

ComputeUnweightedFieldFluctuationsInsitu ==
  /\ MeshCallable
  /\ \E res \in {compute_unweighted_field_fluctuations_insitu(
                   mesh, catalogue, currTask)} :
       MeshCall("compute_unweighted_field_fluctuations_insitu", res,
                NoValue, FALSE)

CatComputeYlmWgtdField ==
  /\ MeshCallable
  /\ \E res \in {compute_ylm_wgtd_field(
                   mesh, MeshParticles(mesh.params, catalogue),
                   MeshParticles(mesh.params, CatRand), CatYlm(catalogue),
                   CatYlm(CatRand), <<3, 2>>, currTask)} :
       MeshCall("compute_ylm_wgtd_field", WithCatalogue(res, catalogue),
                NoValue, FALSE)

CatComputeYlmWgtdQuadField ==
  /\ MeshCallable
  /\ \E res \in {compute_ylm_wgtd_quad_field(
                   mesh, MeshParticles(mesh.params, catalogue),
                   MeshParticles(mesh.params, CatRand), CatYlm(catalogue),
                   CatYlm(CatRand), <<3, 2>>, currTask)} :
       MeshCall("compute_ylm_wgtd_quad_field",
                WithCatalogue(res, catalogue), NoValue, FALSE)

CatComputeYlmWgtdFieldOfOneCatalogue ==
  /\ MeshCallable
  /\ \E res \in {compute_ylm_wgtd_field_of_one_catalogue(
                   mesh, MeshParticles(mesh.params, catalogue),
                   CatYlm(catalogue), <<3, 2>>, currTask)} :
       MeshCall("compute_ylm_wgtd_field of one catalogue",
                WithCatalogue(res, catalogue), NoValue, FALSE)

CatComputeYlmWgtdQuadFieldOfOneCatalogue ==
  /\ MeshCallable
  /\ \E res \in {compute_ylm_wgtd_quad_field_of_one_catalogue(
                   mesh, MeshParticles(mesh.params, catalogue),
                   CatYlm(catalogue), <<3, 2>>, currTask)} :
       MeshCall("compute_ylm_wgtd_quad_field of one catalogue",
                WithCatalogue(res, catalogue), NoValue, FALSE)

CalcGridBasedPowlawNorm ==
  /\ MeshCallable
  /\ \E order \in PowlawOrders :
       \E res \in {calc_grid_based_powlaw_norm(mesh, catalogue, order,
                                               currTask)} :
         MeshCall("calc_grid_based_powlaw_norm", res, res.ret,
                  res.vol_int = RZero)

NextCatalogue ==
  \/ ReadParticleData
  \/ FinaliseParticles
  \/ CalcWeightedTotal
  \/ CalcPosMinAndMax
  \/ OffsetCoords
  \/ OffsetCoordsForCentring
  \/ OffsetCoordsForPeriodicity
  \/ CalcPowspecShotnoise
  \/ CalcPowspecNormalisation
  \/ CalcBispecNormalisation
  \/ CatAssignWeightedFieldToMesh
  \/ ComputeUnweightedField
  \/ ComputeUnweightedFieldFluctuationsInsitu
  \/ CatComputeYlmWgtdField
  \/ CatComputeYlmWgtdQuadField
  \/ CatComputeYlmWgtdFieldOfOneCatalogue
  \/ CatComputeYlmWgtdQuadFieldOfOneCatalogue
  \/ CalcGridBasedPowlawNorm

SpecCatalogue == InitCatalogue /\ [][NextCatalogue]_vars

\* The operations of the catalogue that need particle data.
DataOps ==
  {"_calc_weighted_total", "_calc_pos_min_and_max", "offset_coords",
   "offset_coords_for_centring", "offset_coords_for_periodicity",
   "_calc_powspec_shotnoise", "_calc_powspec_normalisation",
   "_calc_bispec_normalisation"}

\* C12: an operation that needs particle data, called while the particle
\* array is null, ends with InvalidData on every task and has not read or
\* written through the null pointer.
C12_NullParticleArrayRaises ==
  (call.op \in DataOps /\ call.null)
    => (outcome = "InvalidData" /\ ~call.nullaccess)

\* The computations of a normalisation.
NormOps ==
  {"_calc_powspec_normalisation", "_calc_bispec_normalisation",
   "calc_grid_based_powlaw_norm"}

\* C13: a normalisation whose divisor is exactly zero ends with a fatal
\* data error; none returns the reciprocal of zero.
C13_ZeroDivisorRaises ==
  (call.op \in NormOps /\ call.zero_divisor)
    => (outcome = "InvalidData" /\ ret = NoValue)

\* The steps that hand the catalogue to an operation of the mesh.
MeshOpStep ==
  /\ trace' # trace
  /\ trace'[Len(trace')] \in MeshOps

\* C16: an operation of the mesh that takes a catalogue leaves every
\* particle's position and weights, the particle count, the total weight
\* and the stored extents as they were.
C16_MeshOperationsLeaveCatalogue ==
  [][MeshOpStep =>
       /\ catalogue'.pdata = catalogue.pdata
       /\ catalogue'.ntotal = catalogue.ntotal
       /\ catalogue'.wtotal = catalogue.wtotal
       /\ catalogue'.pos_min = catalogue.pos_min
       /\ catalogue'.pos_max = catalogue.pos_max]_vars

\* A catalogue of two particles has been read and then handed to
\* compute_unweighted_field_fluctuations_insitu, which returned.
C16_Witness ==
  /\ Len(trace) >= 2
  /\ trace[1] = "read_particle_data"
  /\ trace[Len(trace)] = "compute_unweighted_field_fluctuations_insitu"
  /\ outcome = "returned"
  /\ catalogue.ntotal = 2
  /\ mesh.field # ZeroBuffer(mesh.params.nmesh)

\* The operations that rescale or offset the primary buffer after the
\* assignment.
RescalingOps ==
  {"compute_unweighted_field_fluctuations_insitu",
   "compute_ylm_wgtd_field of one catalogue",
   "compute_ylm_wgtd_quad_field of one catalogue"}

\* The buffer as the operation op rescales or offsets the primary buffer
\* after the assignment of catalogue c to mesh m.
RescaledAs(op, m, c, buffer) ==
  CASE op = "compute_unweighted_field_fluctuations_insitu" ->
         [gid \in DOMAIN buffer |->
           <<RSub(buffer[gid][1], RRat(c.ntotal, m.vol)), buffer[gid][2]>>]
    [] op = "compute_ylm_wgtd_field of one catalogue" ->
         ScaleBuffer(buffer, 3, 2)
    [] op = "compute_ylm_wgtd_quad_field of one catalogue" ->
         ScaleBuffer(buffer, 9, 4)

\* The weights the operation op assigns for catalogue c.
WeightsOf(op, m, c) ==
  CASE op = "compute_unweighted_field_fluctuations_insitu" ->
         [pid \in 1..c.ntotal |-> CInt(1, 0)]
    [] op = "compute_ylm_wgtd_field of one catalogue" ->
         YlmWeights(MeshParticles(m.params, c), CatYlm(c))
    [] op = "compute_ylm_wgtd_quad_field of one catalogue" ->
         YlmQuadWeights(MeshParticles(m.params, c), CatYlm(c))

\* C24: with interlacing, after the single-catalogue compute_ylm_wgtd_field
\* (times alpha), the single-catalogue compute_ylm_wgtd_quad_field (times
\* alpha squared) and compute_unweighted_field_fluctuations_insitu (minus
\* N / V), the shadow buffer is the assigned shadow buffer rescaled or
\* offset as the primary buffer is.
C24_ShadowBufferRescaledAsPrimary ==
  (/\ call.op \in RescalingOps
   /\ outcome = "returned"
   /\ mesh.params.interlace = "true")
  => LET assigned == assign_weighted_field_to_mesh_kernel(
                       MeshField(mesh.params),
                       MeshParticles(mesh.params, catalogue),
                       WeightsOf(call.op, mesh, catalogue))
     IN  /\ mesh.field = RescaledAs(call.op, mesh, catalogue, assigned.field)
         /\ mesh.field_s
              = RescaledAs(call.op, mesh, catalogue, assigned.field_s)

\* C29: after any sequence of _initialise_particles and finalise_particles,
\* at whatever num and on a catalogue that holds data or not, the memory
\* counter has changed by the size of the particle array now allocated,
\* which is zero once the catalogue is finalised.
C29_CounterTracksParticleArray ==
  gbytesMem - LiveBytes(mesh)
    = IF catalogue.pdata = NullPdata THEN 0
      ELSE Len(catalogue.pdata) * SizeofParticleData

\* C30: after offset_coords_for_periodicity(boxsize) on a catalogue that
\* holds particles, every coordinate of every particle lies in
\* [0, boxsize) on its axis, whatever the coordinates were before, and
\* pos_min and pos_max are the least and the greatest wrapped coordinate
\* of each axis.
C30_WrappedIntoBox ==
  (/\ call.op = "offset_coords_for_periodicity"
   /\ outcome = "returned"
   /\ catalogue.pdata # NullPdata)
  => /\ \A pid \in DOMAIN catalogue.pdata : \A a \in 1..3 :
          /\ ~QLess(catalogue.pdata[pid].pos[a], <<0, 1>>)
          /\ QLess(catalogue.pdata[pid].pos[a], BoxOf(mesh.params)[a])
     /\ \A a \in 1..3 :
          /\ \E pid \in DOMAIN catalogue.pdata :
               catalogue.pos_min[a] = catalogue.pdata[pid].pos[a]
          /\ \E pid \in DOMAIN catalogue.pdata :
               catalogue.pos_max[a] = catalogue.pdata[pid].pos[a]
          /\ \A pid \in DOMAIN catalogue.pdata :
               /\ ~QLess(catalogue.pdata[pid].pos[a], catalogue.pos_min[a])
               /\ ~QLess(catalogue.pos_max[a], catalogue.pdata[pid].pos[a])


(***************************************************************************)
(* Specification SpecStatsSeq: several binned statistics are computed, one *)
(* after the other, on one FieldStats object, each with its own binning    *)
(* and second field.                                                       *)
(***************************************************************************)

\* The computations of one run.
MaxOpsSeq == 2

SeqParams ==
  {ps \in StatsParams : ps.boxsize = <<2, 2, 2>> /\ ps.ngrid = <<2, 1, 1>>
                          /\ ps.assignment # "cic"}

\* The second field of a computation: one of the object's parameters, or
\* one with another grid.
SeqFields(ps) ==
  {StatsField(ps, 2), StatsField(VariantParams(ps, "ngrid"), 2)}

InitStatsSeq ==
  /\ currTask = 0
  /\ \E ps \in SeqParams :
       /\ stats = FieldStats(ps)
       /\ mesh = StatsField(ps, 1)
       /\ mesh_b = StatsField(ps, 2)
  /\ call = NoCall
  /\ outcome = "none"
  /\ ret = NoValue
  /\ trace = <<>>
  /\ saved = NullBuffer
  /\ gbytesMem = LiveBytes(mesh) + LiveBytes(mesh_b)
  /\ fields = <<>>
  /\ catalogue = NoCatalogue

\* The binned computation c names, done on the object st.
BinnedComputation(st, field_a, field_b, c) ==
  CASE c.op = "compute_ylm_wgtd_2pt_stats_in_fourier" ->
         compute_ylm_wgtd_2pt_stats_in_fourier(
           st, field_a, field_b, ShotnoiseAmp, c.ell, c.m, c.binning)
    [] c.op = "compute_ylm_wgtd_2pt_stats_in_config" ->
         compute_ylm_wgtd_2pt_stats_in_config(
           st, field_a, field_b, ShotnoiseAmp, c.ell, c.m, c.binning)
    [] c.op = "compute_uncoupled_shotnoise_for_3pcf" ->
         compute_uncoupled_shotnoise_for_3pcf(
           st, field_a, field_b, YlmA(st.params), YlmB(st.params),
           ShotnoiseAmp, c.binning)

\* One computation with field_b as the second field.
SeqCompute(c, field_b) ==
  /\ Len(trace) < MaxOpsSeq
  /\ \E res \in {BinnedComputation(stats, mesh, field_b, c)} :
       /\ stats' = res.stats
       /\ outcome' = res.outcome
       /\ ret' = res.ret
  /\ mesh_b' = field_b
  /\ call' = c
  /\ trace' = Append(trace, c.op)
  /\ UNCHANGED <<currTask, mesh, saved, gbytesMem, fields, catalogue>>

SeqFourier ==
  \E kbinning \in KBinnings, lm \in Harmonics,
     field_b \in SeqFields(stats.params) :
    SeqCompute([op |-> "compute_ylm_wgtd_2pt_stats_in_fourier",
                binning |-> kbinning, ell |-> lm[1], m |-> lm[2]], field_b)

SeqConfig ==
  \E rbinning \in RBinnings, lm \in Harmonics,
     field_b \in SeqFields(stats.params) :
    SeqCompute([op |-> "compute_ylm_wgtd_2pt_stats_in_config",
                binning |-> rbinning, ell |-> lm[1], m |-> lm[2]], field_b)

SeqShotnoiseFor3pcf ==
  \E rbinning \in RBinnings, field_b \in SeqFields(stats.params) :
    SeqCompute([op |-> "compute_uncoupled_shotnoise_for_3pcf",
                binning |-> rbinning, ell |-> 0, m |-> 0], field_b)

NextStatsSeq ==
  \/ SeqFourier
  \/ SeqConfig
  \/ SeqShotnoiseFor3pcf

SpecStatsSeq == InitStatsSeq /\ [][NextStatsSeq]_vars

StatsArrays == {"nmodes", "npairs", "k", "r", "sn", "pk", "xi"}

\* The arrays a computation writes after the reset.
WrittenArrays(op) ==
  IF op = "compute_ylm_wgtd_2pt_stats_in_fourier"
  THEN {"nmodes", "k", "pk", "sn"}
  ELSE {"npairs", "r", "xi"}

ZeroOf(name) == IF name \in {"nmodes", "npairs"} THEN 0 ELSE SZero

\* The statistics are those of the most recent computation alone: every
\* array has its bin count, the object equals the one the computation
\* leaves when done on a newly constructed object, and the arrays the
\* computation does not write hold zeros.
AsOnFreshObject ==
  /\ \A name \in StatsArrays : Len(stats[name]) = call.binning.num_bins
  /\ stats = BinnedComputation(FieldStats(stats.params), mesh, mesh_b,
                               call).stats
  /\ \A name \in StatsArrays \ WrittenArrays(call.op) :
       \A ibin \in 1..call.binning.num_bins : stats[name][ibin] = ZeroOf(name)

GarbageOrders == {0, 5}

AssignmentOrders(assignment) ==
  CASE assignment = "ngp" -> {1}
    [] assignment = "cic" -> {2}
    [] assignment = "tsc" -> {3}
    [] assignment = "pcs" -> {4}
    [] OTHER -> GarbageOrders

\* wk of one axis: <<0, 1>> for 1., else <<p, q>> for sin(u) / u at
\* |u| = pi * p / q, the quotient being even in u.
AxisWindow(i, n) == IF i # 0 THEN QNorm(<<Abs(i), n>>) ELSE <<0, 1>>

\* std::pow(wk_x * wk_y * wk_z, order): exactly 1 when the three factors
\* are 1., else the power as it stands.
WindowPower(wk, order) ==
  IF \A a \in 1..3 : wk[a] = <<0, 1>> THEN RInt(1)
  ELSE <<"pow", wk, order>>

\* calc_assignment_window_in_fourier(i, j, k) raising to the power
\* order - 1 and adding the factors' count.
calc_assignment_window_in_fourier_offset(params, i, j, k) ==
  {<<"pow", <<AxisWindow(i, params.ngrid[1]), AxisWindow(j, params.ngrid[2]),
              AxisWindow(k, params.ngrid[3])>>, order - 1>>
     : order \in AssignmentOrders(params.assignment)}

\* MeshField::calc_assignment_window_in_fourier(i, j, k): the values the
\* call can return.
calc_assignment_window_in_fourier(params, i, j, k) ==
  {WindowPower(<<AxisWindow(i, params.ngrid[1]),
                 AxisWindow(j, params.ngrid[2]),
                 AxisWindow(k, params.ngrid[3])>>, order)
     : order \in AssignmentOrders(params.assignment)}

\* MeshField::calc_assignment_window_in_fourier(kvec) for the wavevector
\* kvec[a] = mvec[a] * dk[a].
calc_assignment_window_in_fourier_kvec(params, mvec) ==
  LET ijk == IndexOfWavevector(mvec)
  IN  calc_assignment_window_in_fourier(params, ijk[1], ijk[2], ijk[3])

\* field[idx_grid] /= win: a division by exactly 1 leaves the sample.
Over(z, win) == IF win = RInt(1) THEN z ELSE <<"over", z, win>>

\* MeshField::apply_assignment_compensation: the buffers the call can
\* leave.
apply_assignment_compensation(m) ==
  {[gid \in DOMAIN m.field |->
     LET c == CellOf(m.params, gid)
         kv == get_grid_wavevector(m.params, c[1], c[2], c[3])
         ijk == IndexOfWavevector(kv)
     IN  Over(m.field[gid],
              WindowPower(<<AxisWindow(ijk[1], m.params.ngrid[1]),
                            AxisWindow(ijk[2], m.params.ngrid[2]),
                            AxisWindow(ijk[3], m.params.ngrid[3])>>, order))]
     : order \in AssignmentOrders(m.params.assignment)}

\* cx2 of one axis: sin(u)^2 at u = pi * i / n, or 0 for i = 0.  n
\* divides 12.
SinSquared(i, n) ==
  IF i # 0
  THEN RMul(SinTwelfth((12 \div n) * i), SinTwelfth((12 \div n) * i))
  ELSE RZero

\* calc_shotnoise_aliasing_ngp evaluating the sum of the first-order
\* scheme.
calc_shotnoise_aliasing_ngp_summed(params, i, j, k) ==
  LET f(c2) == RSub(RInt(1), RScale(c2, 2, 3))
  IN  RMul(RMul(f(SinSquared(i, params.ngrid[1])),
                f(SinSquared(j, params.ngrid[2]))),
           f(SinSquared(k, params.ngrid[3])))

\* FieldStats::calc_shotnoise_aliasing_ngp.
calc_shotnoise_aliasing_ngp(params, i, j, k) == RInt(1)

\* FieldStats::calc_shotnoise_aliasing_cic.
calc_shotnoise_aliasing_cic(params, i, j, k) ==
  LET f(c2) == RSub(RInt(1), RScale(c2, 2, 3))
  IN  RMul(RMul(f(SinSquared(i, params.ngrid[1])),
                f(SinSquared(j, params.ngrid[2]))),
           f(SinSquared(k, params.ngrid[3])))

\* FieldStats::calc_shotnoise_aliasing_tsc.
calc_shotnoise_aliasing_tsc(params, i, j, k) ==
  LET f(c2) == RAdd(RSub(RInt(1), c2), RScale(RMul(c2, c2), 2, 15))
  IN  RMul(RMul(f(SinSquared(i, params.ngrid[1])),
                f(SinSquared(j, params.ngrid[2]))),
           f(SinSquared(k, params.ngrid[3])))

\* FieldStats::calc_shotnoise_aliasing_pcs.
calc_shotnoise_aliasing_pcs(params, i, j, k) ==
  LET f(c2) == RSub(RAdd(RSub(RInt(1), RScale(c2, 4, 3)),
                         RScale(RMul(c2, c2), 2, 5)),
                    RScale(RMul(RMul(c2, c2), c2), 4, 315))
  IN  RMul(RMul(f(SinSquared(i, params.ngrid[1])),
                f(SinSquared(j, params.ngrid[2]))),
           f(SinSquared(k, params.ngrid[3])))

\* FieldStats::calc_shotnoise_aliasing(i, j, k).
calc_shotnoise_aliasing(params, i, j, k) ==
  CASE params.assignment = "ngp" ->
         calc_shotnoise_aliasing_ngp(params, i, j, k)
    [] params.assignment = "cic" ->
         calc_shotnoise_aliasing_cic(params, i, j, k)
    [] params.assignment = "tsc" ->
         calc_shotnoise_aliasing_tsc(params, i, j, k)
    [] params.assignment = "pcs" ->
         calc_shotnoise_aliasing_pcs(params, i, j, k)
    [] OTHER -> RInt(1)

\* FieldStats::calc_shotnoise_aliasing(kvec) for kvec[a] = mvec[a] * dk[a].
calc_shotnoise_aliasing_kvec(params, mvec) ==
  LET ijk == IndexOfWavevector(mvec)
  IN  calc_shotnoise_aliasing(params, ijk[1], ijk[2], ijk[3])

(***************************************************************************)
(* Specification SpecWindow: the sampling corrections of a transformed     *)
(* MeshField and of a FieldStats object of the same parameters are         *)
(* evaluated, and the field is compensated.                                *)
(***************************************************************************)

\* Indices and wavevector components run over -MaxIdx..MaxIdx.
MaxIdx == 2

\* The compensations of one run.
MaxCompensations == 1

WindowShapes == {<<4, 2, 1>>, <<3, 2, 2>>}

WindowParams ==
  {ParameterSet(<<1, 1, 2>>, g, 2, a, "false")
     : g \in WindowShapes, a \in AssignmentSelectors}

IndexTriples ==
  {<<i, j, k>> : i \in -MaxIdx..MaxIdx, j \in -MaxIdx..MaxIdx,
                 k \in -MaxIdx..MaxIdx}

InitWindow ==
  /\ currTask = 0
  /\ \E ps \in WindowParams :
       /\ mesh = StatsField(ps, 1)
       /\ stats = FieldStats(ps)
  /\ mesh_b = NoMesh
  /\ call = NoCall
  /\ outcome = "none"
  /\ ret = NoValue
  /\ trace = <<>>
  /\ saved = mesh.field
  /\ gbytesMem = LiveBytes(mesh)
  /\ fields = <<>>
  /\ catalogue = NoCatalogue

\* One evaluation of a correction: the value is returned, nothing else
\* changes.  An evaluation ends the run, as it leaves both objects as
\* they were.
Evaluated(op, mvec, ijk, values) ==
  /\ call.op \in {"none", "apply_assignment_compensation"}
  /\ \E value \in values : ret' = value
  /\ call' = [op |-> op, mvec |-> mvec, ijk |-> ijk]
  /\ outcome' = "returned"
  /\ UNCHANGED <<currTask, mesh, mesh_b, stats, trace, saved, gbytesMem,
                 fields, catalogue>>

CalcAssignmentWindowInFourier ==
  \E ijk \in IndexTriples :
    Evaluated("calc_assignment_window_in_fourier(i, j, k)", NoValue, ijk,
              calc_assignment_window_in_fourier(mesh.params, ijk[1], ijk[2],
                                                ijk[3]))

CalcAssignmentWindowInFourierKvec ==
  \E mvec \in IndexTriples :
    Evaluated("calc_assignment_window_in_fourier(kvec)", mvec,
              IndexOfWavevector(mvec),
              calc_assignment_window_in_fourier_kvec(mesh.params, mvec))

CalcShotnoiseAliasing ==
  \E ijk \in IndexTriples :
    Evaluated("calc_shotnoise_aliasing(i, j, k)", NoValue, ijk,
              {calc_shotnoise_aliasing(stats.params, ijk[1], ijk[2],
                                       ijk[3])})

CalcShotnoiseAliasingKvec ==
  \E mvec \in IndexTriples :
    Evaluated("calc_shotnoise_aliasing(kvec)", mvec,
              IndexOfWavevector(mvec),
              {calc_shotnoise_aliasing_kvec(stats.params, mvec)})

ApplyAssignmentCompensation ==
  /\ Len(trace) < MaxCompensations
  /\ \E buffer \in apply_assignment_compensation(mesh) :
       mesh' = [mesh EXCEPT !.field = buffer]
  /\ call' = [op |-> "apply_assignment_compensation"]
  /\ outcome' = "returned"
  /\ ret' = NoValue
  /\ trace' = Append(trace, "apply_assignment_compensation")
  /\ UNCHANGED <<currTask, mesh_b, stats, saved, gbytesMem, fields,
                 catalogue>>

NextWindow ==
  \/ CalcAssignmentWindowInFourier
  \/ CalcAssignmentWindowInFourierKvec
  \/ CalcShotnoiseAliasing
  \/ CalcShotnoiseAliasingKvec
  \/ ApplyAssignmentCompensation

SpecWindow == InitWindow /\ [][NextWindow]_vars

AliasingOps ==
  {"calc_shotnoise_aliasing(i, j, k)", "calc_shotnoise_aliasing(kvec)"}

WindowOps ==
  {"calc_assignment_window_in_fourier(i, j, k)",
   "calc_assignment_window_in_fourier(kvec)"}

\* C17: with the nearest-grid-point scheme calc_shotnoise_aliasing
\* returns exactly 1 for every index triple, negative and out-of-range
\* ones included, and for every wavevector of the wavevector overload.
C17_NgpAliasingIsOne ==
  (call.op \in AliasingOps /\ stats.params.assignment = "ngp")
    => ret = RInt(1)

\* The aliasing has been evaluated with the nearest-grid-point scheme at
\* an index below zero on one axis and beyond the grid on another, and at
\* such a wavevector.
C17_Witness ==
  /\ call.op = "calc_shotnoise_aliasing(i, j, k)"
  /\ stats.params.assignment = "ngp"
  /\ call.ijk[1] < 0
  /\ call.ijk[3] >= stats.params.ngrid[3]
  /\ ret = RInt(1)

\* The cells whose wavevector is zero.
ZeroModeCells(params) ==
  {gid \in 0..(params.nmesh - 1) :
     LET c == CellOf(params, gid)
     IN  get_grid_wavevector(params, c[1], c[2], c[3]) = <<0, 0, 0>>}

\* C18: for each of the four schemes calc_assignment_window_in_fourier is
\* exactly 1 at the zero wavevector through both overloads, and
\* apply_assignment_compensation leaves the zero-mode sample unchanged.
C18_WindowIsOneAtZeroMode ==
  mesh.params.assignment \in SupportedKernels
    => /\ (call.op = "calc_assignment_window_in_fourier(i, j, k)"
             /\ call.ijk = <<0, 0, 0>>) => ret = RInt(1)
       /\ (call.op = "calc_assignment_window_in_fourier(kvec)"
             /\ call.mvec = <<0, 0, 0>>) => ret = RInt(1)
       /\ \A gid \in ZeroModeCells(mesh.params) :
            mesh.field[gid] = saved[gid]

\* A field of a grid that has a zero-mode cell has been compensated with
\* the triangular-shaped-cloud scheme: its zero-mode sample is the one it
\* had, and another sample is not.
C18_Witness ==
  /\ trace = <<"apply_assignment_compensation">>
  /\ mesh.params.assignment = "tsc"
  /\ ZeroModeCells(mesh.params) # {}
  /\ \E gid \in DOMAIN mesh.field : mesh.field[gid] # saved[gid]

\* The wavevectors of the grid cells.
GridWavevectors(params) ==
  {get_grid_wavevector(params, CellOf(params, gid)[1],
                       CellOf(params, gid)[2], CellOf(params, gid)[3])
     : gid \in 0..(params.nmesh - 1)}

\* C19: the index triple that calc_assignment_window_in_fourier(kvec) and
\* calc_shotnoise_aliasing(kvec) recover from the wavevector of a grid
\* cell is the cell's signed index triple, and the value at -k is the
\* value at +k.
C19_WavevectorIndexRecovered ==
  (call.op \in {"calc_assignment_window_in_fourier(kvec)",
                "calc_shotnoise_aliasing(kvec)"}
     /\ call.mvec \in GridWavevectors(mesh.params))
    => /\ call.ijk = call.mvec
       /\ LET minus == [a \in 1..3 |-> -call.mvec[a]]
          IN  IF call.op = "calc_shotnoise_aliasing(kvec)"
              THEN ret = calc_shotnoise_aliasing_kvec(stats.params, minus)
              ELSE ret \in calc_assignment_window_in_fourier_kvec(
                             mesh.params, minus)

(***************************************************************************)
(* Specification SpecReassign: a MeshField whose buffers hold the content  *)
(* of earlier use is assigned to, once or several times.                   *)
(***************************************************************************)

\* At most MaxReassign assignments are performed in a run.
MaxReassign == 2

ReassignParams ==
  {ParameterSet(<<1, 1, 2>>, <<2, 1, 1>>, 2, a, il) :
     a \in SupportedKernels, il \in {"true", "false"}}

\* The particles assigned: on the first cell, 1/PosDen of a cell above it,
\* and on the second cell.
ReassignParticles ==
  {[pos |-> <<x, 0, 0>>, w |-> 1] : x \in {0, 1, PosDen}}

InitReassign ==
  /\ currTask = 0
  /\ \E ps \in ReassignParams :
       \E f \in Contents(ps.nmesh, 1),
          fs \in (IF ps.interlace = "true" THEN Contents(ps.nmesh, 1)
                  ELSE {NullBuffer}) :
         /\ mesh = [params |-> ps, field |-> f, field_s |-> fs,
                    vol |-> ps.volume]
         /\ saved = <<f, fs>>
  /\ mesh_b = NoMesh
  /\ stats = NoStats
  /\ call = NoCall
  /\ outcome = "none"
  /\ ret = NoValue
  /\ trace = <<>>
  /\ gbytesMem = LiveBytes(mesh) + LiveBytes(mesh_b)
  /\ fields = <<>>
  /\ catalogue = NoCatalogue

AssignWeightedFieldToMeshAgain ==
  /\ Len(trace) < MaxReassign
  /\ \E pt \in ReassignParticles, wt \in ComplexValues :
       \E res \in {assign_weighted_field_to_mesh(mesh, <<pt>>, <<wt>>,
                                                  currTask)} :
           /\ mesh' = res.mesh
           /\ outcome' = res.outcome
           /\ call' = [op |-> "assign_weighted_field_to_mesh",
                       particles |-> <<pt>>, weights |-> <<wt>>]
  /\ trace' = Append(trace, "assign_weighted_field_to_mesh")
  /\ UNCHANGED <<currTask, mesh_b, stats, ret, saved, gbytesMem,
               fields, catalogue>>

NextReassign == AssignWeightedFieldToMeshAgain

SpecReassign == InitReassign /\ [][NextReassign]_vars

\* The mesh of the given parameters with every sample of its buffers zero.
ZeroedMesh(params) ==
  [params |-> params, field |-> ZeroBuffer(params.nmesh),
   field_s |-> IF params.interlace = "true" THEN ZeroBuffer(params.nmesh)
               ELSE NullBuffer,
   vol |-> params.volume]

\* C25: with each of the four kernels the buffers after
\* assign_weighted_field_to_mesh are those the assignment of the same
\* particles and weights gives on zero-filled buffers, whatever the buffers
\* held before; an assignment repeated with the same particles and weights
\* leaves the buffers as the first left them.
C25_AssignmentOverwrites ==
  [][trace' # trace
       => /\ mesh' = assign_weighted_field_to_mesh_kernel(
                       ZeroedMesh(mesh.params), call'.particles,
                       call'.weights)
          /\ (trace # <<>> /\ call'.particles = call.particles
                /\ call'.weights = call.weights) => mesh' = mesh]_vars

\* An interlaced 2x1x1 mesh of the pcs kernel whose two buffers held
\* non-zero samples, assigned to twice with the same particle and weight.
C25_Witness ==
  /\ Len(trace) = MaxReassign
  /\ mesh.params.interlace = "true"
  /\ mesh.params.assignment = "pcs"
  /\ mesh.params.ngrid = <<2, 1, 1>>
  /\ saved[1] # ZeroBuffer(mesh.params.nmesh)
  /\ saved[2] # ZeroBuffer(mesh.params.nmesh)
  /\ call.particles = <<[pos |-> <<0, 0, 0>>, w |-> 1]>>
  /\ call.weights = <<CInt(1, -1)>>
  /\ mesh.field # ZeroBuffer(mesh.params.nmesh)

(***************************************************************************)
(* The two-point drivers (include/twopt.hpp)                               *)
(*                                                                         *)
(* A field of a driver is kept by its name and the events of its life in   *)
(* their order; an array by its length and whether it is allocated; an     *)
(* access to an array by the array, the index and the array's length.      *)
(***************************************************************************)

\* ELL runs over 0..MaxEll.
MaxEll == 1

\* num_kbin and num_rbin run over 1..MaxBins.
MaxBins == 2

Drivers ==
  {"compute_powspec", "compute_corrfunc", "compute_powspec_window",
   "compute_corrfunc_window", "compute_powspec_in_box",
   "compute_corrfunc_in_box"}

\* The drivers that loop over the orders M_ of a field dn_LM.
LoopDrivers ==
  {"compute_powspec", "compute_corrfunc", "compute_corrfunc_window"}

\* The drivers of the correlation function.
CorrfuncDrivers ==
  {"compute_corrfunc", "compute_corrfunc_window", "compute_corrfunc_in_box"}

\* The arrays a driver allocates for its output, with their lengths.
OutputArrays(c) ==
  CASE c.op \in {"compute_powspec", "compute_powspec_in_box"} ->
         [k_save |-> c.num_kbin, pk_save |-> c.num_kbin,
          sn_save |-> c.num_kbin]
    [] c.op = "compute_powspec_window" ->
         [k_save |-> c.num_kbin, pk_save |-> c.num_kbin]
    [] c.op \in {"compute_corrfunc", "compute_corrfunc_window"} ->
         [r_save |-> c.num_rbin, xi_save |-> c.num_rbin]
    [] c.op = "compute_corrfunc_in_box" ->
         [r_save |-> c.num_kbin, xi_save |-> c.num_rbin]

\* The arrays of the statistics object stats2pt, with their lengths.
StatsArrayLengths(c) ==
  [k |-> c.num_kbin, pk |-> c.num_kbin, sn |-> c.num_kbin,
   r |-> c.num_rbin, xi |-> c.num_rbin]

\* The accesses of `for (ibin = 0; ibin < count; ibin++)` to the named
\* output arrays and arrays of stats2pt.
BinLoop(c, count, outputs, statistics) ==
  {[array |-> a, index |-> ibin, length |-> OutputArrays(c)[a]] :
     a \in outputs, ibin \in 0..(count - 1)}
    \cup {[array |-> "stats2pt." \o a, index |-> ibin,
           length |-> StatsArrayLengths(c)[a]] :
            a \in statistics, ibin \in 0..(count - 1)}

\* The loop that zeroes the output arrays.
SetUpLoop(c) ==
  BinLoop(c, IF c.op \in CorrfuncDrivers THEN c.num_rbin ELSE c.num_kbin,
          DOMAIN OutputArrays(c), {})

\* The loops after a statistic: the sums, and the copy of the effective
\* coordinate, which the looping drivers make at M_ = 0 and m1 = 0.
ResultLoops(c, M_) ==
  CASE c.op = "compute_powspec" ->
         BinLoop(c, c.num_kbin, {"pk_save", "sn_save"}, {"pk", "sn"})
           \cup (IF M_ = 0 THEN BinLoop(c, c.num_kbin, {"k_save"}, {"k"})
                 ELSE {})
    [] c.op \in {"compute_corrfunc", "compute_corrfunc_window"} ->
         BinLoop(c, c.num_rbin, {"xi_save"}, {"xi"})
           \cup (IF M_ = 0 THEN BinLoop(c, c.num_kbin, {"r_save"}, {"r"})
                 ELSE {})
    [] c.op = "compute_powspec_window" ->
         BinLoop(c, c.num_kbin, {"k_save", "pk_save"}, {"k", "pk"})
    [] c.op = "compute_powspec_in_box" ->
         BinLoop(c, c.num_kbin, {"k_save", "sn_save", "pk_save"},
                 {"k", "sn", "pk"})
    [] c.op = "compute_corrfunc_in_box" ->
         BinLoop(c, c.num_rbin, {"r_save", "xi_save"}, {"r", "xi"})

\* The loop that writes the output file.
SaveLoop(c) ==
  IF c.save
  THEN BinLoop(c, IF c.op \in CorrfuncDrivers THEN c.num_rbin
                  ELSE c.num_kbin,
               DOMAIN OutputArrays(c), {})
  ELSE {}

\* The measurement structure: its members and the arrays they point to,
\* kbin and rbin being the caller's.
MeasurementsOf(c) ==
  CASE c.op \in {"compute_powspec", "compute_powspec_in_box"} ->
         [kbin |-> "kbin", keff |-> "k_save", pk_raw |-> "pk_save",
          pk_shot |-> "sn_save"]
    [] c.op = "compute_powspec_window" ->
         [kbin |-> "kbin", keff |-> "k_save", pk |-> "pk_save"]
    [] c.op \in CorrfuncDrivers ->
         [rbin |-> "rbin", reff |-> "r_save", xi |-> "xi_save"]

\* A field that is constructed and assigned to but not transformed.
FieldBuilt_untransformed(name) ==
  [name |-> name, events |-> <<"constructed", "assigned">>]

\* A field declared, filled by its compute_... operation and handed to
\* fourier_transform.
FieldBuilt(name) ==
  [name |-> name, events |-> <<"constructed", "assigned", "transformed">>]

\* The field after it was handed to a statistic, and at the end of its
\* scope.
FieldUsed(f) == [f EXCEPT !.events = Append(@, "used")]

FieldDestroyed(f) == [f EXCEPT !.events = Append(@, "destroyed")]

(***************************************************************************)
(* Specification SpecDriver: one call of a two-point driver, from its      *)
(* set-up to its return.                                                   *)
(***************************************************************************)

InitDriver ==
  /\ currTask = 0
  /\ mesh = NoMesh
  /\ mesh_b = NoMesh
  /\ stats = NoStats
  /\ call = NoCall
  /\ outcome = "none"
  /\ ret = NoValue
  /\ trace = <<>>
  /\ saved = <<>>
  /\ gbytesMem = 0
  /\ fields = <<>>
  /\ catalogue = NoCatalogue

\* The call and the set-up: the output arrays are allocated and zeroed.
DriverSetUp ==
  /\ call.op = "none"
  /\ \E d \in Drivers, ell \in 0..MaxEll, nk \in 1..MaxBins,
        nr \in 1..MaxBins, save \in BOOLEAN :
       \E c \in {[op |-> d, ELL |-> ell, num_kbin |-> nk, num_rbin |-> nr,
                  save |-> save]} :
         /\ call' = c @@ [pc |-> "measurement", M_ |-> -ell,
                          accesses |-> SetUpLoop(c)]
         /\ saved' = [a \in DOMAIN OutputArrays(c) |->
                       [length |-> OutputArrays(c)[a], allocated |-> TRUE]]
  /\ trace' = Append(trace, "set-up")
  /\ UNCHANGED <<currTask, mesh, mesh_b, stats, outcome, ret, gbytesMem,
               fields, catalogue>>

\* The field dn_00 (dn in the drivers for a periodic box).
DriverMonopoleField ==
  /\ call.op # "none"
  /\ call.pc = "measurement"
  /\ fields' = <<FieldBuilt(IF call.op \in {"compute_powspec_in_box",
                                             "compute_corrfunc_in_box"}
                            THEN "dn" ELSE "dn_00")>>
  /\ call' = [call EXCEPT !.pc = IF call.op \in LoopDrivers THEN "loop"
                                 ELSE "statistic",
                          !.accesses = {}]
  /\ trace' = Append(trace, "monopole field")
  /\ UNCHANGED <<currTask, mesh, mesh_b, stats, outcome, ret, saved,
               gbytesMem, catalogue>>

\* One pass of the loop over M_: dn_LM is built, the statistic of dn_LM
\* and dn_00 is computed at the one m1 of non-zero coupling, m1 = -M_, the
\* results are added up and dn_LM and stats2pt go out of scope.
DriverMultipoleTerm ==
  /\ call.op # "none"
  /\ call.pc = "loop"
  /\ fields' = <<FieldUsed(fields[1])>> \o Tail(fields)
                 \o <<FieldDestroyed(FieldUsed(FieldBuilt("dn_LM")))>>
  /\ call' = [call EXCEPT !.M_ = @ + 1,
                          !.pc = IF call.M_ = call.ELL THEN "output"
                                 ELSE "loop",
                          !.accesses = ResultLoops(call, call.M_)]
  /\ trace' = Append(trace, "multipole term")
  /\ UNCHANGED <<currTask, mesh, mesh_b, stats, outcome, ret, saved,
               gbytesMem, catalogue>>

\* The one statistic of the drivers without a loop, of the field with
\* itself.
DriverStatistic ==
  /\ call.op # "none"
  /\ call.pc = "statistic"
  /\ fields' = <<FieldUsed(fields[1])>>
  /\ call' = [call EXCEPT !.pc = "output",
                          !.accesses = ResultLoops(call, 0)]
  /\ trace' = Append(trace, "statistic")
  /\ UNCHANGED <<currTask, mesh, mesh_b, stats, outcome, ret, saved,
               gbytesMem, catalogue>>

\* The output: the structure is filled in, the file written if asked for,
\* the output arrays deleted and the structure returned; the field of the
\* function's scope is destroyed.
DriverOutput ==
  /\ call.op # "none"
  /\ call.pc = "output"
  /\ ret' = MeasurementsOf(call)
  /\ saved' = [a \in DOMAIN saved |-> [saved[a] EXCEPT !.allocated = FALSE]]
  /\ fields' = <<FieldDestroyed(fields[1])>> \o Tail(fields)
  /\ call' = [call EXCEPT !.pc = "returned", !.accesses = SaveLoop(call)]
  /\ outcome' = "returned"
  /\ trace' = Append(trace, "output")
  /\ UNCHANGED <<currTask, mesh, mesh_b, stats, gbytesMem, catalogue>>

NextDriver ==
  \/ DriverSetUp
  \/ DriverMonopoleField
  \/ DriverMultipoleTerm
  \/ DriverStatistic
  \/ DriverOutput

SpecDriver == InitDriver /\ [][NextDriver]_vars

\* The events of a field are those of one life: construction first; if the
\* field was handed to a statistic, one assignment and then one forward
\* transform before it; after these nothing but uses in statistics; and
\* the destruction last.
FieldLifeInOrder(f) ==
  LET e == f.events
  IN  /\ Len(e) >= 1 /\ e[1] = "constructed"
      /\ "used" \in Range(e)
            => Len(e) >= 3 /\ e[2] = "assigned" /\ e[3] = "transformed"
      /\ \A i \in 4..Len(e) : e[i] \in {"used", "destroyed"}
      /\ \A i \in 1..Len(e) : e[i] = "destroyed" => i = Len(e)

\* C23: in each of the six drivers every field handed to a statistic has
\* been constructed, then assigned once, then transformed forwards once,
\* and is neither assigned nor transformed between its first use in a
\* statistic and its destruction; the monopole field is used in every
\* pass of the loop over M_ as it was built.
C23_FieldsBuiltOnceBeforeUse ==
  \A i \in DOMAIN fields : FieldLifeInOrder(fields[i])

\* compute_corrfunc_window at ELL = 1 after its return: dn_00 was used in
\* the three passes of the loop, each with a dn_LM of its own.
C23_Witness ==
  /\ call.op = "compute_corrfunc_window"
  /\ call.ELL = 1
  /\ call.pc = "returned"
  /\ Len(fields) = 4
  /\ fields[1] = [name |-> "dn_00",
                  events |-> <<"constructed", "assigned", "transformed",
                               "used", "used", "used", "destroyed">>]
  /\ \A i \in 2..4 :
       fields[i] = [name |-> "dn_LM",
                    events |-> <<"constructed", "assigned", "transformed",
                                 "used", "destroyed">>]

\* C26: the measurement structure a driver returns points only to arrays
\* that are allocated when the driver returns.
C26_ReturnedArraysAllocated ==
  (call.op # "none" /\ call.pc = "returned")
  => \A member \in DOMAIN ret :
       ret[member] \in DOMAIN saved => saved[ret[member]].allocated

\* C27: in the three drivers of the correlation function every access to
\* r_save and to the array r of stats2pt is at an index below the length
\* of the array, whatever num_kbin and num_rbin are.
C27_EffectiveSeparationInBounds ==
  (call.op \in CorrfuncDrivers)
  => \A a \in call.accesses :
       a.array \in {"r_save", "stats2pt.r"} => a.index < a.length

=============================================================================
